---- MODULE Spec2Model ----
(***************************************************************************)
(* Model of the airdrop reconciliation engine: AirdropSyncService (batch   *)
(* sync, event path), the VerifiedAirdrop document methods, the contract   *)
(* probe (ContractVerificationService) and the WebSocket reconnect logic   *)
(* of BlockchainMonitoringService.                                         *)
(*                                                                         *)
(* Time is counted in quarters (3 months); the 30-day activity window is  *)
(* a third of a unit.  An absent (undefined) string field is NONE, an      *)
(* absent date is NoDate.                                                  *)
(***************************************************************************)
EXTENDS Integers, Sequences, FiniteSets, TLC

VARIABLES
  store,            \* VerifiedAirdrop collection: _id -> document
  legacy,           \* legacy Airdrop collection (set of documents)
  nextId,           \* next _id the store hands out
  now,              \* wall clock, in quarters
  chain,            \* on-chain / explorer state per (lowercase) address
  served,           \* environment: [pool, stable, list, addrs, down,
                    \* unreachable]: the records the
                    \* sources can serve (when stable every fetch gets list,
                    \* otherwise any raw list over pool), the addresses
                    \* whose chain state can change, the sources that are
                    \* down and the blockchains whose RPC endpoint does not
                    \* answer
  dbFaulty,         \* TRUE when store calls may throw
  isSyncing,        \* AirdropSyncService.isSyncing
  pc,               \* per caller of syncRealAirdrops: position in the body
  feed,             \* per caller: the part of realAirdrops still to be processed
  result,           \* per caller: the SyncResult under construction
  snap,             \* history: store and inputs at the end of the last sync
  ws,               \* per blockchain: sockets created (sequence of states)
  reconnectAttempts,\* BlockchainMonitoringService.reconnectAttempts
  timers,           \* per blockchain: pending reconnect timers (captured attempts)
  isMonitoring,     \* BlockchainMonitoringService.isMonitoring
  sched,            \* history: per blockchain, disconnects seen and reconnects
                    \* scheduled since the last successful open
  flight,           \* per handler slot: the event or request handler running
                    \* in it, suspended at an await
  userClaims,       \* UserClaim collection: rows (walletAddress, airdropId)
  executed,         \* history: claim transactions executed per
                    \* (walletAddress, airdropId)
  stream            \* history of the WebSocket message handler: whether an
                    \* exception escaped it, and the outcome of each message

syncVars == <<store, legacy, nextId, now, chain, served, dbFaulty, isSyncing,
              pc, feed, result, snap>>
monVars  == <<ws, reconnectAttempts, timers, isMonitoring, sched>>
apiVars  == <<flight, userClaims, executed, stream>>
vars     == <<store, legacy, nextId, now, chain, served, dbFaulty, isSyncing,
              pc, feed, result, snap,
              ws, reconnectAttempts, timers, isMonitoring, sched,
              flight, userClaims, executed, stream>>

----------------------------------------------------------------------------
(* Bounds of the model *)

MaxTime == 2          \* the clock runs 0..MaxTime
MaxIds == 3           \* _ids the store hands out in one behaviour
MaxHistory == 4       \* cap on verificationHistory growth by manual actions
MaxSockets == 4       \* sockets created per blockchain in one behaviour
MaxViews == 2         \* view increments started on one record
MaxClaims == 11       \* recordClaim calls on one record
MaxMessages == 2      \* WebSocket messages followed in one behaviour

(* Program constants *)

MonthsPerUnit == 3          \* one time unit is a quarter
RetentionMonths == 3        \* cleanupObsoleteData: setMonth(getMonth() - 3)
RetentionViews == 10        \* cleanupObsoleteData: views < 10
ActivityMonths == 1         \* isAirdropActive: setDate(getDate() - 30)
TopClaimersKept == 10
maxReconnectAttempts == 3   \* WEBSOCKET_MAX_RETRIES default
reconnectInterval == 300000 \* WEBSOCKET_RECONNECT_INTERVAL default
MaxReconnectDelay == 600000 \* Math.min(..., 600000)
PatternMinLogs == 50        \* isLikelyAirdropPattern: logs.length > 50
PatternMaxSenders == 3      \* isLikelyAirdropPattern: fromAddresses.size <= 3

NONE == "none"
NoDate == -1
InvalidDate == -2
UnknownUrl == "https://unknown.com"

Truthy(v) == v /= NONE /\ v /= ""

Min(a, b) == IF a <= b THEN a ELSE b

RECURSIVE Pow2(_)
Pow2(n) == IF n = 0 THEN 1 ELSE 2 * Pow2(n - 1)

Range(s) == {s[i] : i \in 1..Len(s)}

----------------------------------------------------------------------------
(* String conversions *)

\* String.prototype.toLowerCase / the schema's lowercase setter
toLowerCase(s) ==
  CASE s = "0xA" -> "0xa"
    [] s = "0xB" -> "0xb"
    [] s = "Foo" -> "foo"
    [] s = "Bar" -> "bar"
    [] s = "Arbitrum" -> "arbitrum"
    [] s = "FOO" -> "foo"
    [] s = "BAR" -> "bar"
    [] s = "ARB" -> "arb"
    [] s = "0xW" -> "0xw"
    [] OTHER -> s

\* new Date(text): a parseable text gives its date, anything else Invalid Date
ParseDate(text) ==
  CASE text = "quarter-1" -> 1
    [] OTHER -> InvalidDate

\* RealAirdropService.extractSymbolFromName
extractSymbolFromName(name) ==
  CASE name = "Foo" -> "FOO"
    [] name = "Bar" -> "BAR"
    [] OTHER -> "UNKN"

\* AirdropSyncService.mapSourceType
mapSourceType(source) ==
  IF source \in {"coingecko", "github"} THEN "api"
  ELSE IF source \in {"airdrop-alert"} THEN "scraping"
  ELSE IF source \in {"known-defi"} THEN "manual"
  ELSE "api"

\* AirdropSyncService.calculateSourceConfidence
calculateSourceConfidence(source) ==
  CASE source = "coingecko" -> 90
    [] source = "known-defi" -> 95
    [] source = "airdrop-alert" -> 70
    [] source = "github" -> 60
    [] OTHER -> 50

----------------------------------------------------------------------------
(* External sources: what RealAirdropService can return *)

Names == {"Foo", "Bar"}
LowerAddrs == {"0xa", "0xb"}

\* scrapeAirdropAlert: no contract address, optional end date and value
AlertCands ==
  { [name |-> n, symbol |-> extractSymbolFromName(n), contractAddress |-> "",
     tokenAddress |-> "", blockchain |-> "ethereum",
     description |-> "alert-desc", website |-> NONE, endDate |-> e,
     totalValue |-> IF e = "quarter-1" THEN "v1" ELSE NONE,
     status |-> "active", source |-> "airdrop-alert"]
    : n \in {"Foo"}, e \in {NONE, "quarter-1"} }

\* fetchCoinMarketCapAirdrops: contract address as the API gives it
GeckoCands ==
  { [name |-> n, symbol |-> extractSymbolFromName(n), contractAddress |-> a,
     tokenAddress |-> a,
     blockchain |-> "ethereum", description |-> "gecko-desc",
     website |-> IF a = "0xa" THEN "https://gecko.example" ELSE NONE,
     endDate |-> NONE, totalValue |-> NONE,
     status |-> "active", source |-> "coingecko"]
    : n \in Names, a \in {"0xa", "0xb"} }

\* fetchKnownDeFiAirdrops: the curated entry, kept when verifyAirdropStatus
\* finds it active (its status is then rewritten to active)
DefiCands ==
  { [name |-> "Arbitrum", symbol |-> "ARB", contractAddress |-> "0xB",
     tokenAddress |-> "0xB", blockchain |-> "arbitrum",
     description |-> "defi-desc", website |-> "https://arbitrum.io",
     endDate |-> NONE, totalValue |-> NONE,
     status |-> "active", source |-> "known-defi"] }

\* fetchGitHubTrendingTokens
GithubCands ==
  { [name |-> n, symbol |-> extractSymbolFromName(n), contractAddress |-> "",
     tokenAddress |-> "", blockchain |-> "ethereum",
     description |-> "github-desc", website |-> "https://github.example",
     endDate |-> NONE, totalValue |-> NONE,
     status |-> "upcoming", source |-> "github"]
    : n \in {"Bar"} }

Candidates == AlertCands \cup GeckoCands \cup DefiCands \cup GithubCands

\* the records the sources serve in the main specification
PoolMain ==
  {c \in GeckoCands : c.contractAddress = "0xa"} \cup
  {c \in AlertCands : c.endDate /= NONE}

\* position of a source in fetchRealAirdrops' concatenation order
SourceRank(c) ==
  CASE c.source = "airdrop-alert" -> 1
    [] c.source = "coingecko" -> 2
    [] c.source = "known-defi" -> 3
    [] OTHER -> 4

\* the raw lists fetchRealAirdrops can assemble: per-source results
\* concatenated in source order
RawFeeds(pool) ==
  { <<>> } \cup { <<c>> : c \in pool } \cup
  { <<p[1], p[2]>> : p \in {q \in pool \X pool :
                                 SourceRank(q[1]) <= SourceRank(q[2])} }

\* RealAirdropService.deduplicateAirdrops
dedupKey(c) == <<toLowerCase(c.name), toLowerCase(c.symbol)>>

RECURSIVE deduplicateAirdrops(_, _)
deduplicateAirdrops(list, seen) ==
  IF list = <<>> THEN <<>>
  ELSE IF dedupKey(Head(list)) \in seen
       THEN deduplicateAirdrops(Tail(list), seen)
       ELSE <<Head(list)>> \o
            deduplicateAirdrops(Tail(list), seen \cup {dedupKey(Head(list))})

\* RealAirdropService.fetchRealAirdrops
fetchRealAirdrops(raw) == deduplicateAirdrops(raw, {})

----------------------------------------------------------------------------
(* Chain state and the contract probe (ContractVerificationService) *)


\* what a node and its explorer can report for one address
NoCode   == [hasCode |-> FALSE, sourceVerified |-> FALSE, owner |-> NONE,
             lastTx |-> NoDate, tokenName |-> NONE, tokenSymbol |-> NONE]
Plain    == [hasCode |-> TRUE, sourceVerified |-> FALSE, owner |-> NONE,
             lastTx |-> NoDate, tokenName |-> NONE, tokenSymbol |-> NONE]
Verified == [hasCode |-> TRUE, sourceVerified |-> TRUE, owner |-> "0xowner",
             lastTx |-> 0, tokenName |-> "Foo", tokenSymbol |-> "FOO"]
ChainKinds == {NoCode, Plain, Verified}

\* the node's view of an address (the same on every network of the model)
ChainAt(blockchain, address) ==
  IF toLowerCase(address) \in LowerAddrs
  THEN chain[toLowerCase(address)]
  ELSE NoCode

\* ContractVerificationService.providers: blockchainConfigs keys
hasProvider(blockchain) == blockchain \in {"ethereum", "polygon", "bsc", "arbitrum"}

\* ContractVerificationService.isValidAddress (ethers.isAddress)
isValidAddress(address) == address \in {"0xa", "0xA", "0xb", "0xB"}

\* ContractVerificationService.hasContractCode: getCode rejects when the
\* endpoint does not answer, and the catch returns false
hasContractCode(address, blockchain) ==
  IF ~hasProvider(blockchain) THEN FALSE
  ELSE IF blockchain \in served.unreachable THEN FALSE
  ELSE ChainAt(blockchain, address).hasCode

\* ContractVerificationService.checkAirdropFunctions: the Contract is built
\* from the service's own airdropABI, so interface.getFunction finds
\* claimTokens and isClaimed whatever the deployed contract implements
checkAirdropFunctions(address, blockchain) ==
  IF ~hasProvider(blockchain)
  THEN [isAirdropContract |-> FALSE, hasClaimFunction |-> FALSE]
  ELSE [isAirdropContract |-> TRUE, hasClaimFunction |-> TRUE]

\* the ContractInfo of the early returns; the optional booleans it leaves
\* undefined are FALSE here (every reader tests them for truthiness)
BaseContractInfo ==
  [isValid |-> FALSE, isToken |-> FALSE, verified |-> FALSE,
   isAirdropContract |-> FALSE, hasClaimFunction |-> FALSE,
   owner |-> NONE, lastActivity |-> NoDate, name |-> NONE, symbol |-> NONE]

\* ContractVerificationService.verifyContract
verifyContract(address, blockchain) ==
  IF ~isValidAddress(address) THEN BaseContractInfo
  ELSE IF ~hasContractCode(address, blockchain) THEN BaseContractInfo
  ELSE LET c == ChainAt(blockchain, address)
           fn == checkAirdropFunctions(address, blockchain)
       IN [isValid |-> TRUE,
           isToken |-> c.tokenName /= NONE /\ c.tokenSymbol /= NONE,
           verified |-> c.sourceVerified,
           isAirdropContract |-> fn.isAirdropContract,
           hasClaimFunction |-> fn.hasClaimFunction,
           owner |-> c.owner,
           lastActivity |-> c.lastTx,
           name |-> c.tokenName,
           symbol |-> c.tokenSymbol]

\* the calls of one probe that can fail (node RPC, explorer API)
ProbeCalls == {"getCode", "getsourcecode", "erc20", "owner", "txlist"}

\* an awaited call: rejects when it is among the failing ones
Await(call, failing, value) == [threw |-> call \in failing, value |-> value]

\* try { return <outcome> } catch { return <fallback> }
Caught(outcome, fallback) == IF outcome.threw THEN fallback ELSE outcome.value

\* hasContractCode when the calls in failing reject
hasContractCodeWith(address, blockchain, failing) ==
  IF ~hasProvider(blockchain) THEN FALSE
  ELSE Caught(Await("getCode", failing, ChainAt(blockchain, address).hasCode), FALSE)

\* getExplorerInfo returning null
NoExplorerInfo == [found |-> FALSE, verified |-> FALSE]

\* variant: a failed explorer call counts as a verified source
getExplorerInfoWith_TrustsFailure(address, blockchain, failing) ==
  Caught(Await("getsourcecode", failing,
               [found |-> TRUE,
                verified |-> ChainAt(blockchain, address).sourceVerified]),
         [found |-> TRUE, verified |-> TRUE])

\* getExplorerInfo
getExplorerInfoWith(address, blockchain, failing) ==
  Caught(Await("getsourcecode", failing,
               [found |-> TRUE,
                verified |-> ChainAt(blockchain, address).sourceVerified]),
         NoExplorerInfo)

\* getTokenInfo: Promise.allSettled, a token when name() and symbol() fulfil
getTokenInfoWith(address, blockchain, failing) ==
  LET c == ChainAt(blockchain, address)
      name == Await("erc20", failing, c.tokenName)
      symbol == Await("erc20", failing, c.tokenSymbol)
  IN IF /\ ~name.threw /\ name.value /= NONE
        /\ ~symbol.threw /\ symbol.value /= NONE
     THEN [found |-> TRUE, name |-> name.value, symbol |-> symbol.value]
     ELSE [found |-> FALSE, name |-> NONE, symbol |-> NONE]

\* getContractOwner: owner(), then getOwner(), then undefined
getContractOwnerWith(address, blockchain, failing) ==
  Caught(Await("owner", failing, ChainAt(blockchain, address).owner),
         Caught(Await("owner", failing, ChainAt(blockchain, address).owner), NONE))

\* getLastActivity
getLastActivityWith(address, blockchain, failing) ==
  Caught(Await("txlist", failing, ChainAt(blockchain, address).lastTx), NoDate)

\* ContractVerificationService.verifyContract when the calls in failing
\* reject: every sub-check catches its own failure
verifyContractWith(address, blockchain, failing) ==
  IF ~isValidAddress(address) THEN BaseContractInfo
  ELSE IF ~hasContractCodeWith(address, blockchain, failing) THEN BaseContractInfo
  ELSE LET explorerInfo == getExplorerInfoWith(address, blockchain, failing)
           tokenInfo == getTokenInfoWith(address, blockchain, failing)
           fn == checkAirdropFunctions(address, blockchain)
       IN [isValid |-> TRUE,
           isToken |-> tokenInfo.found,
           verified |-> IF explorerInfo.found THEN explorerInfo.verified ELSE FALSE,
           isAirdropContract |-> fn.isAirdropContract,
           hasClaimFunction |-> fn.hasClaimFunction,
           owner |-> getContractOwnerWith(address, blockchain, failing),
           lastActivity |-> getLastActivityWith(address, blockchain, failing),
           name |-> tokenInfo.name,
           symbol |-> tokenInfo.symbol]

\* variant: a contract without known activity counts as inactive
isAirdropActive_UnknownIsInactive(address, blockchain, t) ==
  LET contractInfo == verifyContract(address, blockchain)
  IN IF ~contractInfo.isValid \/ ~contractInfo.hasClaimFunction THEN FALSE
     ELSE IF contractInfo.lastActivity /= NoDate
          THEN contractInfo.lastActivity * MonthsPerUnit > t * MonthsPerUnit - ActivityMonths
          ELSE FALSE

\* ContractVerificationService.isAirdropActive, evaluated at time t
isAirdropActive(address, blockchain, t) ==
  LET contractInfo == verifyContract(address, blockchain)
  IN IF ~contractInfo.isValid \/ ~contractInfo.hasClaimFunction THEN FALSE
     ELSE IF contractInfo.lastActivity /= NoDate
          THEN contractInfo.lastActivity * MonthsPerUnit > t * MonthsPerUnit - ActivityMonths
          ELSE TRUE

----------------------------------------------------------------------------
(* VerifiedAirdrop documents *)

BlockchainEnum == {"ethereum", "polygon", "bsc", "arbitrum", "optimism",
                   "avalanche", "fantom", "solana"}
StatusEnum == {"upcoming", "active", "ended", "paused", "cancelled"}
LevelEnum == {"unverified", "community", "official", "scam"}

\* schema validation run by save(): required strings must be non-empty,
\* enums must match, dates must be valid
Validates(doc) ==
  /\ Truthy(doc.name)
  /\ Truthy(doc.symbol)
  /\ Truthy(doc.contractAddress)
  /\ Truthy(doc.tokenAddress)
  /\ doc.blockchain \in BlockchainEnum
  /\ Truthy(doc.description)
  /\ doc.status \in StatusEnum
  /\ doc.verificationLevel \in LevelEnum
  /\ doc.endDate /= InvalidDate
  /\ \A i \in 1..Len(doc.sources) : Truthy(doc.sources[i].url)

\* unique index on contractAddress
DuplicateKey(st, doc) ==
  \E id \in DOMAIN st : st[id].contractAddress = doc.contractAddress

Insert(st, id, doc) == [i \in DOMAIN st \cup {id} |-> IF i = id THEN doc ELSE st[i]]

Remove(st, ids) == [i \in DOMAIN st \ ids |-> st[i]]

\* the document createNewVerifiedAirdrop builds, after the schema setters
\* (lowercase on the addresses) and the pre-save hook, which sees
\* verificationLevel as modified on a new document and appends its own
\* history entry
NewVerifiedAirdrop(airdropData, t) ==
  LET trusted == airdropData.source \in {"coingecko", "known-defi"}
      contractAddress == IF Truthy(airdropData.contractAddress)
                         THEN airdropData.contractAddress ELSE ""
      tokenAddress == IF Truthy(airdropData.tokenAddress)
                      THEN airdropData.tokenAddress
                      ELSE contractAddress
      verificationLevel == IF trusted THEN "community" ELSE "unverified"
  IN [name |-> airdropData.name,
      symbol |-> airdropData.symbol,
      contractAddress |-> toLowerCase(contractAddress),
      tokenAddress |-> toLowerCase(tokenAddress),
      blockchain |-> IF Truthy(airdropData.blockchain)
                     THEN airdropData.blockchain ELSE "ethereum",
      description |-> IF Truthy(airdropData.description)
                      THEN airdropData.description ELSE "token airdrop",
      website |-> airdropData.website,
      endDate |-> IF Truthy(airdropData.endDate)
                  THEN ParseDate(airdropData.endDate) ELSE NoDate,
      claimDeadline |-> NoDate,
      totalValue |-> airdropData.totalValue,
      status |-> IF Truthy(airdropData.status) THEN airdropData.status ELSE "active",
      verificationLevel |-> verificationLevel,
      sources |-> << [type |-> mapSourceType(airdropData.source),
                      url |-> IF Truthy(airdropData.website)
                              THEN airdropData.website ELSE UnknownUrl,
                      confidence |-> calculateSourceConfidence(airdropData.source)] >>,
      contractInfo |-> [verified |-> FALSE, hasClaimFunction |-> FALSE,
                        owner |-> NONE, lastActivity |-> NoDate],
      risks |-> [level |-> IF trusted THEN "low" ELSE "medium",
                 factors |-> <<>>, warnings |-> <<>>],
      metadata |-> [lastVerified |-> t,
                    verificationHistory |->
                      << [action |-> "created", by |-> "system"],
                         [action |-> "level changed", by |-> "system"] >>],
      analytics |-> [views |-> 0, claims |-> 0, successfulClaims |-> 0,
                     topClaimers |-> <<>>]]

\* the legacy document createLegacyAirdrop builds: it passes symbol, not
\* tokenSymbol, and neither totalSupply nor claimableAmount
NewLegacyAirdrop(airdropData) ==
  [name |-> airdropData.name,
   tokenSymbol |-> NONE,
   contractAddress |-> toLowerCase(IF Truthy(airdropData.contractAddress)
                                   THEN airdropData.contractAddress ELSE ""),
   totalSupply |-> NONE,
   claimableAmount |-> NONE,
   isActive |-> airdropData.status = "active"]

\* AirdropSchema validation (legacy model): required fields
LegacyValidates(doc) ==
  /\ Truthy(doc.name)
  /\ Truthy(doc.tokenSymbol)
  /\ Truthy(doc.contractAddress)
  /\ Truthy(doc.totalSupply)
  /\ Truthy(doc.claimableAmount)

\* AirdropSyncService.createLegacyAirdrop: errors are logged and swallowed
createLegacyAirdrop(leg, airdropData) ==
  LET existingLegacy == {d \in leg :
          \/ d.contractAddress = toLowerCase(airdropData.contractAddress)
          \/ d.name = airdropData.name}
      doc == NewLegacyAirdrop(airdropData)
  IN IF existingLegacy = {} /\ LegacyValidates(doc) THEN leg \cup {doc} ELSE leg

----------------------------------------------------------------------------
(* AirdropSyncService: per-candidate processing *)

MinOf(S) == CHOOSE x \in S : \A y \in S : x <= y

\* Model.findOne / updateOne target: the first matching document in natural
\* (insertion) order, 0 when none matches
findOne(ids) == IF ids = {} THEN 0 ELSE MinOf(ids)

\* the filter of processAirdropData's findOne; filter values pass through
\* the schema setters (lowercase on the addresses)
IdentityMatches(st, airdropData) ==
  {id \in DOMAIN st :
     \/ st[id].contractAddress = toLowerCase(airdropData.contractAddress)
     \/ st[id].tokenAddress = toLowerCase(airdropData.tokenAddress)
     \/ (st[id].name = airdropData.name /\ st[id].symbol = airdropData.symbol)}

ByContract(st, contractAddress) ==
  {id \in DOMAIN st : st[id].contractAddress = toLowerCase(contractAddress)}

SourceUrl(newData) == IF Truthy(newData.website) THEN newData.website ELSE UnknownUrl

\* variant: the website is copied even when the candidate has none
mergeFields_OverwritesEmpty(existingAirdrop, newData) ==
  LET d1 == IF Truthy(newData.description)
               /\ newData.description /= existingAirdrop.description
            THEN [existingAirdrop EXCEPT !.description = newData.description]
            ELSE existingAirdrop
      d2 == IF newData.website /= d1.website
            THEN [d1 EXCEPT !.website = newData.website]
            ELSE d1
      d3 == IF Truthy(newData.endDate)
               /\ (d2.endDate = NoDate \/ ParseDate(newData.endDate) /= d2.endDate
                   \/ ParseDate(newData.endDate) = InvalidDate)
            THEN [d2 EXCEPT !.endDate = ParseDate(newData.endDate)]
            ELSE d2
  IN IF Truthy(newData.totalValue) /\ newData.totalValue /= d3.totalValue
     THEN [d3 EXCEPT !.totalValue = newData.totalValue]
     ELSE d3

\* updateExistingAirdrop, first part: description, website, endDate and
\* totalValue are overwritten when the candidate carries a different value
mergeFields(existingAirdrop, newData) ==
  LET d1 == IF Truthy(newData.description)
               /\ newData.description /= existingAirdrop.description
            THEN [existingAirdrop EXCEPT !.description = newData.description]
            ELSE existingAirdrop
      d2 == IF Truthy(newData.website) /\ newData.website /= d1.website
            THEN [d1 EXCEPT !.website = newData.website]
            ELSE d1
      d3 == IF Truthy(newData.endDate)
               /\ (d2.endDate = NoDate \/ ParseDate(newData.endDate) /= d2.endDate
                   \/ ParseDate(newData.endDate) = InvalidDate)
            THEN [d2 EXCEPT !.endDate = ParseDate(newData.endDate)]
            ELSE d2
  IN IF Truthy(newData.totalValue) /\ newData.totalValue /= d3.totalValue
     THEN [d3 EXCEPT !.totalValue = newData.totalValue]
     ELSE d3

\* the sources entry updateExistingAirdrop builds for a candidate
newSource(newData) ==
  [type |-> mapSourceType(newData.source),
   url |-> SourceUrl(newData),
   confidence |-> calculateSourceConfidence(newData.source)]

\* variant: the merge also copies the candidate's status
updateExistingAirdrop_CopiesStatus(existingAirdrop, newData, t) ==
  LET d4 == mergeFields(existingAirdrop, newData)
      sourceExists == \E i \in 1..Len(d4.sources) : d4.sources[i].url = SourceUrl(newData)
      d5 == IF ~sourceExists
            THEN [d4 EXCEPT !.sources = Append(@, newSource(newData))]
            ELSE d4
  IN [d5 EXCEPT !.metadata.lastVerified = t, !.status = newData.status]

\* variant: a new source replaces the list instead of being appended
updateExistingAirdrop_ReplacesSources(existingAirdrop, newData, t) ==
  LET d4 == mergeFields(existingAirdrop, newData)
      sourceExists == \E i \in 1..Len(d4.sources) : d4.sources[i].url = SourceUrl(newData)
      d5 == IF ~sourceExists
            THEN [d4 EXCEPT !.sources = <<newSource(newData)>>]
            ELSE d4
  IN [d5 EXCEPT !.metadata.lastVerified = t]

\* variant: the source is appended without looking for its URL
updateExistingAirdrop_AlwaysAppends(existingAirdrop, newData, t) ==
  LET d4 == mergeFields(existingAirdrop, newData)
      d5 == [d4 EXCEPT !.sources = Append(@, newSource(newData))]
  IN [d5 EXCEPT !.metadata.lastVerified = t]

\* AirdropSyncService.updateExistingAirdrop: the document as it stands when
\* save() is called
updateExistingAirdrop(existingAirdrop, newData, t) ==
  LET d4 == mergeFields(existingAirdrop, newData)
      sourceExists == \E i \in 1..Len(d4.sources) : d4.sources[i].url = SourceUrl(newData)
      d5 == IF ~sourceExists
            THEN [d4 EXCEPT !.sources = Append(@, newSource(newData))]
            ELSE d4
  IN [d5 EXCEPT !.metadata.lastVerified = t]

\* verifyAndUpdateContract, first updateOne: the probe's contractInfo is
\* written to the document with the (lowercased) contract address; an
\* undefined owner or lastActivity is dropped from the $set and leaves the
\* stored value
storeContractInfo(st, contractAddress, blockchain, t) ==
  LET contractInfo == verifyContract(contractAddress, blockchain)
      id == findOne(ByContract(st, contractAddress))
  IN IF id = 0 THEN st
     ELSE [st EXCEPT
             ![id].contractInfo.verified = contractInfo.verified,
             ![id].contractInfo.hasClaimFunction = contractInfo.hasClaimFunction,
             ![id].contractInfo.owner =
                IF contractInfo.owner = NONE THEN @ ELSE contractInfo.owner,
             ![id].contractInfo.lastActivity =
                IF contractInfo.lastActivity = NoDate THEN @
                ELSE contractInfo.lastActivity,
             ![id].metadata.lastVerified = t]

\* variant: the second updateOne without verificationLevel in its filter
verifyAndUpdateContract_NoFilter(st, contractAddress, blockchain, t) ==
  LET contractInfo == verifyContract(contractAddress, blockchain)
      st1 == storeContractInfo(st, contractAddress, blockchain, t)
      id2 == findOne(ByContract(st1, contractAddress))
  IN IF contractInfo.verified /\ contractInfo.isValid /\ id2 /= 0
     THEN [st1 EXCEPT ![id2].verificationLevel = "community",
                      ![id2].risks.level = "low"]
     ELSE st1

\* AirdropSyncService.verifyAndUpdateContract: the second updateOne is sent
\* when the probe reports verified and isValid, and is filtered on
\* verificationLevel unverified
verifyAndUpdateContract(st, contractAddress, blockchain, t) ==
  LET contractInfo == verifyContract(contractAddress, blockchain)
      st1 == storeContractInfo(st, contractAddress, blockchain, t)
      id2 == findOne({i \in ByContract(st1, contractAddress) :
                        st1[i].verificationLevel = "unverified"})
  IN IF contractInfo.verified /\ contractInfo.isValid /\ id2 /= 0
     THEN [st1 EXCEPT ![id2].verificationLevel = "community",
                      ![id2].risks.level = "low"]
     ELSE st1

\* AirdropSyncService.createNewVerifiedAirdrop: save() validates and inserts;
\* any failure is caught and null returned
createNewVerifiedAirdrop(st, leg, id, airdropData, t) ==
  LET doc == NewVerifiedAirdrop(airdropData, t)
  IN IF Validates(doc) /\ ~DuplicateKey(st, doc)
     THEN [store |-> Insert(st, id, doc),
           legacy |-> createLegacyAirdrop(leg, airdropData),
           saved |-> TRUE]
     ELSE [store |-> st, legacy |-> leg, saved |-> FALSE]

EmptyResult == [newAirdrops |-> 0, updatedAirdrops |-> 0,
                verifiedContracts |-> 0, errors |-> <<>>]

\* AirdropSyncService.processAirdropData followed by the per-candidate catch
\* of syncRealAirdrops.  dbOk = FALSE: the store throws on the first call.
processAirdropData(st, leg, id, airdropData, res, t, dbOk) ==
  LET existingAirdrop == findOne(IdentityMatches(st, airdropData))
      updated == updateExistingAirdrop(st[existingAirdrop], airdropData, t)
      created == createNewVerifiedAirdrop(st, leg, id, airdropData, t)
      failed == [store |-> st, legacy |-> leg, saved |-> FALSE,
                 result |-> [res EXCEPT !.errors = Append(@, airdropData.name)]]
      enrich(s) == IF Truthy(airdropData.contractAddress)
                   THEN verifyAndUpdateContract(s, airdropData.contractAddress,
                                                airdropData.blockchain, t)
                   ELSE s
      count(r) == IF Truthy(airdropData.contractAddress)
                  THEN [r EXCEPT !.verifiedContracts = @ + 1] ELSE r
  IN IF ~dbOk THEN failed
     ELSE IF existingAirdrop /= 0
     THEN IF ~Validates(updated) THEN failed
          ELSE [store |-> enrich([st EXCEPT ![existingAirdrop] = updated]),
                legacy |-> leg, saved |-> FALSE,
                result |-> count([res EXCEPT !.updatedAirdrops = @ + 1])]
     ELSE [store |-> enrich(created.store),
           legacy |-> created.legacy, saved |-> created.saved,
           result |-> count(IF created.saved
                            THEN [res EXCEPT !.newAirdrops = @ + 1] ELSE res)]

\* handler slots: requests and events handled concurrently
Slots == {"h1", "h2"}

Wallets == {"0xw"}

Idle == [op |-> "idle", addr |-> "", id |-> 0, val |-> 0]

----------------------------------------------------------------------------
(* AirdropSyncService: maintenance pass *)

Expired(doc, t) ==
  /\ doc.status \in {"active", "upcoming"}
  /\ \/ (doc.endDate /= NoDate /\ doc.endDate < t)
     \/ (doc.claimDeadline /= NoDate /\ doc.claimDeadline < t)

\* updateExistingAirdrops without the expiry updateMany
updateExistingAirdrops_NoExpiry(st, t) ==
  [id \in DOMAIN st |->
     IF /\ st[id].status = "active"
        /\ st[id].contractAddress /= ""
        /\ ~isAirdropActive(st[id].contractAddress, st[id].blockchain, t)
     THEN [st[id] EXCEPT !.status = "ended", !.metadata.lastVerified = t]
     ELSE st[id]]

\* AirdropSyncService.updateExistingAirdrops: the expiry updateMany, then the
\* liveness loop over the active/upcoming documents with a contract address
updateExistingAirdrops(st, t) ==
  LET st1 == [id \in DOMAIN st |->
                IF Expired(st[id], t) THEN [st[id] EXCEPT !.status = "ended"]
                ELSE st[id]]
      activeAirdrops == {id \in DOMAIN st1 :
                           /\ st1[id].status \in {"active", "upcoming"}
                           /\ st1[id].contractAddress /= ""}
  IN [id \in DOMAIN st1 |->
        IF /\ id \in activeAirdrops
           /\ ~isAirdropActive(st1[id].contractAddress, st1[id].blockchain, t)
           /\ st1[id].status = "active"
        THEN [st1[id] EXCEPT !.status = "ended", !.metadata.lastVerified = t]
        ELSE st1[id]]

\* variant: the filter does not look at the age of the last verification
Obsolete_AnyAge(doc, t) ==
  /\ doc.status = "ended"
  /\ doc.analytics.views < RetentionViews
  /\ doc.verificationLevel = "unverified"

\* the filter of cleanupObsoleteData's deleteMany
Obsolete(doc, t) ==
  /\ doc.status = "ended"
  /\ doc.metadata.lastVerified * MonthsPerUnit < t * MonthsPerUnit - RetentionMonths
  /\ doc.analytics.views < RetentionViews
  /\ doc.verificationLevel = "unverified"

\* AirdropSyncService.cleanupObsoleteData
cleanupObsoleteData(st, t) ==
  Remove(st, {id \in DOMAIN st : Obsolete(st[id], t)})

----------------------------------------------------------------------------
(* syncRealAirdrops and its callers *)

\* POST /sync/real, the 6-hour setInterval of startAutomaticMonitoring, and
\* the initial sync of initializeRealAirdrops
Callers == {"route", "timer", "startup"}

InBody == {"fetch", "process", "update", "cleanup", "finally"}

DbOutcomes == IF dbFaulty THEN BOOLEAN ELSE {TRUE}

NoSnap == [valid |-> FALSE, store |-> <<>>, now |-> 0]

\* variant: no guard, every call goes on into the body
syncRealAirdropsEnter_NoGuard(c) ==
  /\ isSyncing' = TRUE
  /\ result' = [result EXCEPT ![c] = EmptyResult]
  /\ pc' = [pc EXCEPT ![c] = "fetch"]

\* syncRealAirdrops up to its first await: the guard, then isSyncing = true.
\* A call while isSyncing throws before the try block.
syncRealAirdropsEnter(c) ==
  IF isSyncing
  THEN /\ pc' = [pc EXCEPT ![c] = "threw"]
       /\ UNCHANGED <<isSyncing, result>>
  ELSE /\ isSyncing' = TRUE
       /\ result' = [result EXCEPT ![c] = EmptyResult]
       /\ pc' = [pc EXCEPT ![c] = "fetch"]

\* the interval callback: calls syncRealAirdrops and catches what it throws
TimerFires ==
  /\ pc["timer"] = "idle"
  /\ syncRealAirdropsEnter("timer")
  /\ UNCHANGED <<store, legacy, nextId, now, chain, served, dbFaulty,
                 feed, snap>>
  /\ UNCHANGED monVars
  /\ UNCHANGED apiVars

\* variant: the route calls syncRealAirdrops without asking isSyncInProgress()
RouteSync_NoCheck ==
  /\ pc["route"] = "idle"
  /\ syncRealAirdropsEnter("route")
  /\ UNCHANGED <<store, legacy, nextId, now, chain, served, dbFaulty,
                 feed, snap>>
  /\ UNCHANGED monVars
  /\ UNCHANGED apiVars

\* router.post('/sync/real'): calls syncRealAirdrops, in the same tick, once
\* isSyncInProgress() is false (it answers 409 and touches nothing otherwise)
RouteSync ==
  /\ pc["route"] = "idle"
  /\ ~isSyncing
  /\ syncRealAirdropsEnter("route")
  /\ UNCHANGED <<store, legacy, nextId, now, chain, served, dbFaulty,
                 feed, snap>>
  /\ UNCHANGED monVars
  /\ UNCHANGED apiVars

\* router.post('/sync/real') while isSyncInProgress(): the 409 branch
RouteConflict ==
  /\ pc["route"] = "idle"
  /\ isSyncing
  /\ pc' = [pc EXCEPT !["route"] = "conflict"]
  /\ UNCHANGED <<store, legacy, nextId, now, chain, served, dbFaulty, isSyncing,
                 feed, result, snap>>
  /\ UNCHANGED monVars
  /\ UNCHANGED apiVars

\* the 409 response has been sent; the route takes the next request
RouteAnswered ==
  /\ pc["route"] = "conflict"
  /\ pc' = [pc EXCEPT !["route"] = "idle"]
  /\ UNCHANGED <<store, legacy, nextId, now, chain, served, dbFaulty, isSyncing,
                 feed, result, snap>>
  /\ UNCHANGED monVars
  /\ UNCHANGED apiVars

\* initializeRealAirdrops: one initial sync when the collection is empty
StartupSync ==
  /\ pc["startup"] = "boot"
  /\ IF DOMAIN store = {}
     THEN syncRealAirdropsEnter("startup")
     ELSE /\ pc' = [pc EXCEPT !["startup"] = "off"]
          /\ UNCHANGED <<isSyncing, result>>
  /\ UNCHANGED <<store, legacy, nextId, now, chain, served, dbFaulty,
                 feed, snap>>
  /\ UNCHANGED monVars
  /\ UNCHANGED apiVars

\* the caller's catch: the call is over
CallReturns(c) ==
  /\ pc[c] = "threw"
  /\ pc' = [pc EXCEPT ![c] = IF c = "startup" THEN "off" ELSE "idle"]
  /\ UNCHANGED <<store, legacy, nextId, now, chain, served, dbFaulty, isSyncing,
                 feed, result, snap>>
  /\ UNCHANGED monVars
  /\ UNCHANGED apiVars

\* what the fetchers return of a list: a source that is down or
\* rate-limited makes its fetcher catch the error and return []
Reachable(list) == SelectSeq(list, LAMBDA x : x.source \notin served.down)

\* Paso 1: await realAirdropService.fetchRealAirdrops()
Fetch(c) ==
  /\ pc[c] = "fetch"
  /\ \E raw \in (IF served.stable THEN {Reachable(served.list)}
                 ELSE RawFeeds({x \in served.pool : x.source \notin served.down})) :
       /\ feed' = [feed EXCEPT ![c] = fetchRealAirdrops(raw)]
       /\ pc' = [pc EXCEPT ![c] = IF fetchRealAirdrops(raw) = <<>>
                                  THEN "update" ELSE "process"]
  /\ UNCHANGED <<store, legacy, nextId, now, chain, served, dbFaulty, isSyncing,
                 result, snap>>
  /\ UNCHANGED monVars
  /\ UNCHANGED apiVars

\* variant: a candidate's failure escapes the loop to the outer catch
Process_AbortsOnFailure(c) ==
  /\ pc[c] = "process"
  /\ \E dbOk \in DbOutcomes :
       LET out == processAirdropData(store, legacy, nextId, Head(feed[c]),
                                     result[c], now, dbOk)
       IN /\ out.saved => nextId <= MaxIds
          /\ store' = out.store
          /\ legacy' = out.legacy
          /\ nextId' = IF out.saved THEN nextId + 1 ELSE nextId
          /\ result' = [result EXCEPT ![c] = out.result]
          /\ feed' = [feed EXCEPT ![c] = IF dbOk THEN Tail(@) ELSE <<>>]
          /\ pc' = [pc EXCEPT ![c] = IF ~dbOk THEN "finally"
                                     ELSE IF Tail(feed[c]) = <<>> THEN "update"
                                     ELSE "process"]
  /\ UNCHANGED <<now, chain, served, dbFaulty, isSyncing, snap>>
  /\ UNCHANGED monVars
  /\ UNCHANGED apiVars

\* Paso 2: one iteration of the for loop over realAirdrops
Process(c) ==
  /\ pc[c] = "process"
  /\ \E dbOk \in DbOutcomes :
       LET out == processAirdropData(store, legacy, nextId, Head(feed[c]),
                                     result[c], now, dbOk)
       IN /\ out.saved => nextId <= MaxIds
          /\ store' = out.store
          /\ legacy' = out.legacy
          /\ nextId' = IF out.saved THEN nextId + 1 ELSE nextId
          /\ result' = [result EXCEPT ![c] = out.result]
  /\ feed' = [feed EXCEPT ![c] = Tail(@)]
  /\ pc' = [pc EXCEPT ![c] = IF Tail(feed[c]) = <<>> THEN "update" ELSE "process"]
  /\ UNCHANGED <<now, chain, served, dbFaulty, isSyncing, snap>>
  /\ UNCHANGED monVars
  /\ UNCHANGED apiVars

\* variant: a store failure in the maintenance pass escapes the function
\* without reaching the finally block
UpdateExisting_NoFinally(c) ==
  /\ pc[c] = "update"
  /\ \E dbOk \in DbOutcomes :
       IF dbOk
       THEN /\ store' = updateExistingAirdrops(store, now)
            /\ pc' = [pc EXCEPT ![c] = "cleanup"]
       ELSE /\ pc' = [pc EXCEPT ![c] = "threw"]
            /\ UNCHANGED store
  /\ UNCHANGED <<legacy, nextId, now, chain, served, dbFaulty, isSyncing,
                 feed, result, snap>>
  /\ UNCHANGED monVars
  /\ UNCHANGED apiVars

\* Paso 3: await this.updateExistingAirdrops(result); a store failure is
\* caught inside and recorded
UpdateExisting(c) ==
  /\ pc[c] = "update"
  /\ \E dbOk \in DbOutcomes :
       IF dbOk
       THEN /\ store' = updateExistingAirdrops(store, now)
            /\ UNCHANGED result
       ELSE /\ result' = [result EXCEPT ![c].errors = Append(@, "update")]
            /\ UNCHANGED store
  /\ pc' = [pc EXCEPT ![c] = "cleanup"]
  /\ UNCHANGED <<legacy, nextId, now, chain, served, dbFaulty, isSyncing,
                 feed, snap>>
  /\ UNCHANGED monVars
  /\ UNCHANGED apiVars

\* Paso 4: await this.cleanupObsoleteData(); failures are logged only
Cleanup(c) ==
  /\ pc[c] = "cleanup"
  /\ \E dbOk \in DbOutcomes :
       store' = IF dbOk THEN cleanupObsoleteData(store, now) ELSE store
  /\ pc' = [pc EXCEPT ![c] = "finally"]
  /\ UNCHANGED <<legacy, nextId, now, chain, served, dbFaulty, isSyncing,
                 feed, result, snap>>
  /\ UNCHANGED monVars
  /\ UNCHANGED apiVars

\* Paso 5 (updateStatistics only reads), lastSyncResult = result, and the
\* finally block
Finish(c) ==
  /\ pc[c] = "finally"
  /\ isSyncing' = FALSE
  /\ pc' = [pc EXCEPT ![c] = IF c = "startup" THEN "off" ELSE "idle"]
  /\ result' = [result EXCEPT ![c] = EmptyResult]
  /\ snap' = IF served.stable
             THEN [valid |-> TRUE, store |-> store, now |-> now]
             ELSE snap
  /\ UNCHANGED <<store, legacy, nextId, now, chain, served, dbFaulty, feed>>
  /\ UNCHANGED monVars
  /\ UNCHANGED apiVars

----------------------------------------------------------------------------
(* Event-driven path (listeners registered by setupEventListeners) *)

\* addresses carried by monitoring events: log.address, or tx.to in its
\* checksummed form
EventAddrs == {"0xa", "0xA"}

\* the candidate processDetectedAirdrop synthesizes from the probe
DetectedAirdropData(event, contractInfo) ==
  [name |-> IF Truthy(contractInfo.name) THEN contractInfo.name ELSE "Token 0x",
   symbol |-> IF Truthy(contractInfo.symbol) THEN contractInfo.symbol ELSE "UNKNOWN",
   contractAddress |-> event.contractAddress,
   tokenAddress |-> IF Truthy(event.tokenAddress)
                    THEN event.tokenAddress ELSE event.contractAddress,
   blockchain |-> event.blockchain,
   description |-> "detected",
   website |-> NONE, endDate |-> NONE, totalValue |-> NONE,
   status |-> "active", source |-> "monitoring"]

\* processDetectedAirdrop creating from whatever the probe returns
processDetectedAirdrop_NoProbeCheck(st, leg, id, event, t) ==
  LET existing == findOne(ByContract(st, event.contractAddress))
      contractInfo == verifyContract(event.contractAddress, event.blockchain)
  IN IF existing /= 0
     THEN [store |-> [st EXCEPT ![existing].contractInfo.lastActivity = event.timestamp,
                                ![existing].metadata.lastVerified = t],
           legacy |-> leg, saved |-> FALSE]
     ELSE createNewVerifiedAirdrop(st, leg, id,
                                   DetectedAirdropData(event, contractInfo), t)

\* AirdropSyncService.processDetectedAirdrop (newAirdrop / airdropDetected)
processDetectedAirdrop(st, leg, id, event, t) ==
  LET existing == findOne(ByContract(st, event.contractAddress))
      contractInfo == verifyContract(event.contractAddress, event.blockchain)
  IN IF existing /= 0
     THEN [store |-> [st EXCEPT ![existing].contractInfo.lastActivity = event.timestamp,
                                ![existing].metadata.lastVerified = t],
           legacy |-> leg, saved |-> FALSE]
     ELSE IF ~contractInfo.isValid
     THEN [store |-> st, legacy |-> leg, saved |-> FALSE]
     ELSE createNewVerifiedAirdrop(st, leg, id,
                                   DetectedAirdropData(event, contractInfo), t)

\* a newAirdrop or airdropDetected event reaches its listener
AirdropDetected ==
  /\ \E a \in EventAddrs :
       LET event == [contractAddress |-> a, tokenAddress |-> a,
                     blockchain |-> "ethereum", timestamp |-> now]
           out == processDetectedAirdrop(store, legacy, nextId, event, now)
       IN /\ out.saved => nextId <= MaxIds
          /\ store' = out.store
          /\ legacy' = out.legacy
          /\ nextId' = IF out.saved THEN nextId + 1 ELSE nextId
  /\ UNCHANGED <<now, chain, served, dbFaulty, isSyncing, pc, feed, result, snap>>
  /\ UNCHANGED monVars
  /\ UNCHANGED apiVars

\* updateAirdropStatus leaving a record past its endDate or claimDeadline alone
updateAirdropStatus_RespectsExpiry(st, contractAddress, status, t) ==
  LET id == findOne(ByContract(st, contractAddress))
  IN IF id = 0 THEN st
     ELSE IF \/ (st[id].endDate /= NoDate /\ st[id].endDate < t)
             \/ (st[id].claimDeadline /= NoDate /\ st[id].claimDeadline < t)
     THEN st
     ELSE [st EXCEPT ![id].status = status, ![id].metadata.lastVerified = t]

\* the event a suspended handler was called with
FlightEvent(h) ==
  [contractAddress |-> flight[h].addr, tokenAddress |-> flight[h].addr,
   blockchain |-> "ethereum", timestamp |-> flight[h].val]

\* processDetectedAirdrop up to the return of its findOne: the handler
\* goes on to save the record it found, or to probe and create
EventFind(h, a) ==
  /\ flight[h] = Idle
  /\ LET existing == findOne(ByContract(store, a))
     IN flight' = [flight EXCEPT ![h] =
                     [op |-> IF existing /= 0 THEN "event-save" ELSE "event-create",
                      addr |-> a, id |-> existing, val |-> now]]
  /\ UNCHANGED <<userClaims, executed, stream>>
  /\ UNCHANGED syncVars
  /\ UNCHANGED monVars

\* processDetectedAirdrop, no record found: the probe, then
\* createNewVerifiedAirdrop, whose failed save returns null
EventCreate(h) ==
  /\ flight[h].op = "event-create"
  /\ LET event == FlightEvent(h)
         contractInfo == verifyContract(event.contractAddress, event.blockchain)
         out == IF contractInfo.isValid
                THEN createNewVerifiedAirdrop(store, legacy, nextId,
                                              DetectedAirdropData(event, contractInfo), now)
                ELSE [store |-> store, legacy |-> legacy, saved |-> FALSE]
     IN /\ out.saved => nextId <= MaxIds
        /\ store' = out.store
        /\ legacy' = out.legacy
        /\ nextId' = IF out.saved THEN nextId + 1 ELSE nextId
  /\ flight' = [flight EXCEPT ![h] = Idle]
  /\ UNCHANGED <<now, chain, served, dbFaulty, isSyncing, pc, feed, result, snap>>
  /\ UNCHANGED <<userClaims, executed, stream>>
  /\ UNCHANGED monVars

\* processDetectedAirdrop, record found: existing.save() writes the two
\* modified paths (a record deleted meanwhile makes save() throw)
EventSave(h) ==
  /\ flight[h].op = "event-save"
  /\ store' = IF flight[h].id \in DOMAIN store
              THEN [store EXCEPT ![flight[h].id].contractInfo.lastActivity = flight[h].val,
                                 ![flight[h].id].metadata.lastVerified = now]
              ELSE store
  /\ flight' = [flight EXCEPT ![h] = Idle]
  /\ UNCHANGED <<legacy, nextId, now, chain, served, dbFaulty, isSyncing, pc,
                 feed, result, snap>>
  /\ UNCHANGED <<userClaims, executed, stream>>
  /\ UNCHANGED monVars

\* GET /:id up to the return of findById: the handler holds the document
\* with analytics.views incremented in memory
ViewLoad(h, id) ==
  /\ flight[h] = Idle
  /\ id \in DOMAIN store
  /\ store[id].analytics.views < MaxViews
  /\ flight' = [flight EXCEPT ![h] =
                  [op |-> "view-save", addr |-> "", id |-> id,
                   val |-> store[id].analytics.views + 1]]
  /\ UNCHANGED <<userClaims, executed, stream>>
  /\ UNCHANGED syncVars
  /\ UNCHANGED monVars

\* GET /:id, airdrop.save(): the modified path analytics.views is set to
\* the value held in memory, and the pre-save hook sets lastVerified
ViewSave(h) ==
  /\ flight[h].op = "view-save"
  /\ store' = IF flight[h].id \in DOMAIN store
              THEN [store EXCEPT ![flight[h].id].analytics.views = flight[h].val,
                                 ![flight[h].id].metadata.lastVerified = now]
              ELSE store
  /\ flight' = [flight EXCEPT ![h] = Idle]
  /\ UNCHANGED <<legacy, nextId, now, chain, served, dbFaulty, isSyncing, pc,
                 feed, result, snap>>
  /\ UNCHANGED <<userClaims, executed, stream>>
  /\ UNCHANGED monVars

\* AirdropSyncService.updateAirdropStatus
updateAirdropStatus(st, contractAddress, status, t) ==
  LET id == findOne(ByContract(st, contractAddress))
  IN IF id = 0 THEN st
     ELSE [st EXCEPT ![id].status = status, ![id].metadata.lastVerified = t]

\* a claimOpened event reaches its listener
ClaimOpened ==
  /\ \E a \in EventAddrs :
       store' = updateAirdropStatus(store, a, "active", now)
  /\ UNCHANGED <<legacy, nextId, now, chain, served, dbFaulty, isSyncing,
                 pc, feed, result, snap>>
  /\ UNCHANGED monVars
  /\ UNCHANGED apiVars

----------------------------------------------------------------------------
(* VerifiedAirdrop document methods *)

\* the pre('save') hook on an existing document: a history entry when
\* verificationLevel was modified, lastVerified when anything was
preSave(before, after, t) ==
  LET d1 == IF after.verificationLevel /= before.verificationLevel
            THEN [after EXCEPT !.metadata.verificationHistory =
                    Append(@, [action |-> "level changed", by |-> "system"])]
            ELSE after
  IN IF d1 /= before THEN [d1 EXCEPT !.metadata.lastVerified = t] ELSE d1

\* VerifiedAirdropSchema.methods.updateVerificationLevel
updateVerificationLevel(doc, newLevel, updatedBy, t) ==
  preSave(doc,
          [doc EXCEPT !.verificationLevel = newLevel,
                      !.metadata.verificationHistory =
                         Append(@, [action |-> "level changed from", by |-> updatedBy])],
          t)

UpdateVerificationLevel ==
  /\ \E id \in DOMAIN store, newLevel \in LevelEnum :
       /\ Len(store[id].metadata.verificationHistory) + 2 <= MaxHistory
       /\ store' = [store EXCEPT ![id] = updateVerificationLevel(@, newLevel, "admin", now)]
  /\ UNCHANGED <<legacy, nextId, now, chain, served, dbFaulty, isSyncing,
                 pc, feed, result, snap>>
  /\ UNCHANGED monVars
  /\ UNCHANGED apiVars

\* VerifiedAirdropSchema.methods.incrementViews
incrementViews(doc, t) ==
  preSave(doc, [doc EXCEPT !.analytics.views = @ + 1], t)

IncrementViews ==
  /\ \E id \in DOMAIN store :
       /\ store[id].analytics.views < MaxViews
       /\ store' = [store EXCEPT ![id] = incrementViews(@, now)]
  /\ UNCHANGED <<legacy, nextId, now, chain, served, dbFaulty, isSyncing,
                 pc, feed, result, snap>>
  /\ UNCHANGED monVars
  /\ UNCHANGED apiVars

\* claim amounts are decimal strings
Amounts == {"2", "9", "10"}

\* parseFloat on the amounts of the model
parseFloat(amount) ==
  CASE amount = "2" -> 2
    [] amount = "9" -> 9
    [] amount = "10" -> 10
    [] OTHER -> 0

\* Array.prototype.sort with (a, b) => parseFloat(b.amount) - parseFloat(a.amount):
\* stable, descending by the parsed amount
RECURSIVE InsertDesc(_, _)
InsertDesc(list, e) ==
  IF list = <<>> THEN <<e>>
  ELSE IF parseFloat(Head(list).amount) >= parseFloat(e.amount)
       THEN <<Head(list)>> \o InsertDesc(Tail(list), e)
       ELSE <<e>> \o list

RECURSIVE SortDesc(_)
SortDesc(list) ==
  IF list = <<>> THEN <<>>
  ELSE InsertDesc(SortDesc(SubSeq(list, 1, Len(list) - 1)), list[Len(list)])

\* variant: the list is truncated without being sorted
recordClaim_NoSort(doc, address, amount, successful, t) ==
  LET counted == [doc.analytics EXCEPT !.claims = @ + 1]
      pushed == Append(doc.analytics.topClaimers,
                       [address |-> address, amount |-> amount])
      analytics == IF successful
                   THEN [counted EXCEPT
                           !.successfulClaims = @ + 1,
                           !.topClaimers = SubSeq(pushed, 1,
                                                  Min(Len(pushed), TopClaimersKept))]
                   ELSE counted
  IN preSave(doc, [doc EXCEPT !.analytics = analytics], t)

\* VerifiedAirdropSchema.methods.recordClaim
recordClaim(doc, address, amount, successful, t) ==
  LET counted == [doc.analytics EXCEPT !.claims = @ + 1]
      pushed == Append(doc.analytics.topClaimers,
                       [address |-> address, amount |-> amount])
      analytics == IF successful
                   THEN [counted EXCEPT
                           !.successfulClaims = @ + 1,
                           !.topClaimers = SubSeq(SortDesc(pushed), 1,
                                                  Min(Len(pushed), TopClaimersKept))]
                   ELSE counted
  IN preSave(doc, [doc EXCEPT !.analytics = analytics], t)

RecordClaim(amounts) ==
  /\ \E id \in DOMAIN store, w \in Wallets, amount \in amounts,
        successful \in BOOLEAN :
       /\ store[id].analytics.claims < MaxClaims
       /\ store' = [store EXCEPT ![id] = recordClaim(@, w, amount, successful, now)]
  /\ UNCHANGED <<legacy, nextId, now, chain, served, dbFaulty, isSyncing,
                 pc, feed, result, snap>>
  /\ UNCHANGED monVars
  /\ UNCHANGED apiVars

Warnings == {"w1", "w2", "w3"}
Factors == {NONE, "f1"}

\* variant: the thresholds are off by one
riskLevelFor_OffByOne(count, level) ==
  IF count > 3 THEN "high"
  ELSE IF count > 2 THEN "medium"
  ELSE level

\* the risk level addRiskWarning assigns for a warnings count, given the
\* level the document had
riskLevelFor(count, level) ==
  IF count >= 3 THEN "high"
  ELSE IF count >= 2 THEN "medium"
  ELSE level

\* VerifiedAirdropSchema.methods.addRiskWarning
addRiskWarning(doc, warning, factor, t) ==
  LET warnings == IF warning \notin Range(doc.risks.warnings)
                  THEN Append(doc.risks.warnings, warning)
                  ELSE doc.risks.warnings
      factors == IF Truthy(factor) /\ factor \notin Range(doc.risks.factors)
                 THEN Append(doc.risks.factors, factor)
                 ELSE doc.risks.factors
  IN preSave(doc,
             [doc EXCEPT !.risks = [level |-> riskLevelFor(Len(warnings), doc.risks.level),
                                    factors |-> factors,
                                    warnings |-> warnings]],
             t)

AddRiskWarning ==
  /\ \E id \in DOMAIN store, warning \in Warnings, factor \in Factors :
       /\ store' = [store EXCEPT ![id] = addRiskWarning(@, warning, factor, now)]
       /\ store' /= store
  /\ UNCHANGED <<legacy, nextId, now, chain, served, dbFaulty, isSyncing,
                 pc, feed, result, snap>>
  /\ UNCHANGED monVars
  /\ UNCHANGED apiVars

----------------------------------------------------------------------------
(* Environment *)

\* a quarter passes
Tick ==
  /\ now < MaxTime
  /\ now' = now + 1
  /\ UNCHANGED <<store, legacy, nextId, chain, served, dbFaulty, isSyncing,
                 pc, feed, result, snap>>
  /\ UNCHANGED monVars
  /\ UNCHANGED apiVars

\* the chain or the explorer changes what it reports for one address
ChainChange ==
  /\ \E k \in served.addrs, kind \in ChainKinds :
       /\ chain[k] /= kind
       /\ chain' = [chain EXCEPT ![k] = kind]
  /\ UNCHANGED <<store, legacy, nextId, now, served, dbFaulty, isSyncing,
                 pc, feed, result, snap>>
  /\ UNCHANGED monVars
  /\ UNCHANGED apiVars

\* the sources reached over the network
ExternalSources == {"airdrop-alert", "coingecko"}

\* a source goes down or comes back between two syncs
SourceOutage ==
  /\ \A c \in Callers : pc[c] \notin InBody
  /\ \E src \in ExternalSources :
       served' = [served EXCEPT !.down = IF src \in @ THEN @ \ {src}
                                         ELSE @ \cup {src}]
  /\ UNCHANGED <<store, legacy, nextId, now, chain, dbFaulty, isSyncing, pc,
                 feed, result, snap>>
  /\ UNCHANGED monVars
  /\ UNCHANGED apiVars

\* blockchains whose RPC endpoint can stop answering
OutageChains == {"ethereum"}

\* an RPC endpoint stops answering or answers again
RpcOutage ==
  /\ \E b \in OutageChains :
       served' = [served EXCEPT !.unreachable = IF b \in @ THEN @ \ {b}
                                                ELSE @ \cup {b}]
  /\ UNCHANGED <<store, legacy, nextId, now, chain, dbFaulty, isSyncing, pc,
                 feed, result, snap>>
  /\ UNCHANGED monVars
  /\ UNCHANGED apiVars

----------------------------------------------------------------------------
(* BlockchainMonitoringService: WebSocket connections and reconnects *)

\* blockchains the service holds a MonitoringConfig for
MonChains == {"ethereum", "polygon"}

\* a socket is connecting, open, errored ('error' emitted, 'close' still to
\* come) or closed; after ws.close() it is aborting (the handshake is
\* aborted: 'error', then 'close' to come) or closing ('close' to come);
\* every socket keeps the handlers it was created with
SocketStates == {"connecting", "open", "errored", "closed", "aborting", "closing"}

\* ws.close() on a socket in a given state
wsClose(state) ==
  CASE state = "connecting" -> "aborting"
    [] state = "open" -> "closing"
    [] OTHER -> state

\* setupWebSocketConnection: new WebSocket(config.wsUrl), stored as the
\* blockchain's connection, handlers registered; it does not wait for 'open'
setupWebSocketConnection(sockets, b) ==
  [sockets EXCEPT ![b] = Append(@, "connecting")]

\* reconnectWebSocket up to its setTimeout: the pending timers afterwards.
\* The callback captures attempts and runs after delay.
reconnectWebSocket(tm, b) ==
  LET attempts == reconnectAttempts[b]
      delay == Min(reconnectInterval * Pow2(attempts), MaxReconnectDelay)
  IN IF attempts >= maxReconnectAttempts THEN tm
     ELSE [tm EXCEPT ![b] = Append(@, [attempts |-> attempts, delay |-> delay])]

\* history: one more disconnect seen (when counted), one more reconnect
\* scheduled (when reconnectWebSocket set a timer)
Noted(b, disconnect) ==
  [sched EXCEPT
     ![b].disconnects = @ + (IF disconnect THEN 1 ELSE 0),
     ![b].reconnects = @ + (IF reconnectWebSocket(timers, b) /= timers THEN 1 ELSE 0)]

\* startMonitoring: one connection per configured blockchain
StartMonitoring ==
  /\ ~isMonitoring
  /\ \A b \in MonChains : Len(ws[b]) < MaxSockets
  /\ isMonitoring' = TRUE
  /\ ws' = [b \in MonChains |-> setupWebSocketConnection(ws, b)[b]]
  /\ UNCHANGED <<reconnectAttempts, timers, sched>>
  /\ UNCHANGED syncVars
  /\ UNCHANGED apiVars

\* ws.on('open'): the subscriptions are sent
WsOpen(b, i) ==
  /\ ws[b][i] = "connecting"
  /\ ws' = [ws EXCEPT ![b][i] = "open"]
  /\ sched' = [sched EXCEPT ![b] = [disconnects |-> 0, reconnects |-> 0]]
  /\ UNCHANGED <<reconnectAttempts, timers, isMonitoring>>
  /\ UNCHANGED syncVars
  /\ UNCHANGED apiVars

\* ws.on('error'): a failed handshake or a broken connection
WsError(b, i) ==
  /\ ws[b][i] \in {"connecting", "open", "aborting"}
  /\ ws' = [ws EXCEPT ![b][i] = "errored"]
  /\ timers' = reconnectWebSocket(timers, b)
  /\ sched' = Noted(b, TRUE)
  /\ UNCHANGED <<reconnectAttempts, isMonitoring>>
  /\ UNCHANGED syncVars
  /\ UNCHANGED apiVars

\* ws.on('close'): after an error, or when the peer closes an open socket
WsClose(b, i) ==
  /\ ws[b][i] \in {"open", "errored", "closing"}
  /\ ws' = [ws EXCEPT ![b][i] = "closed"]
  /\ timers' = reconnectWebSocket(timers, b)
  /\ sched' = Noted(b, ws[b][i] \in {"open", "closing"})
  /\ UNCHANGED <<reconnectAttempts, isMonitoring>>
  /\ UNCHANGED syncVars
  /\ UNCHANGED apiVars

\* the setTimeout callback of reconnectWebSocket: the counter is set to
\* attempts + 1, setupWebSocketConnection returns once the socket is
\* created, and the counter is set back to 0 in the same turn
ReconnectTimerFires(b) ==
  /\ timers[b] /= <<>>
  /\ Len(ws[b]) < MaxSockets
  /\ LET attempts == Head(timers[b]).attempts
         counted == [reconnectAttempts EXCEPT ![b] = attempts + 1]
     IN reconnectAttempts' = [counted EXCEPT ![b] = 0]
  /\ ws' = setupWebSocketConnection(ws, b)
  /\ timers' = [timers EXCEPT ![b] = Tail(@)]
  /\ UNCHANGED <<isMonitoring, sched>>
  /\ UNCHANGED syncVars
  /\ UNCHANGED apiVars

\* stopMonitoring: isMonitoring = false, ws.close() on each blockchain's
\* connection (the socket last stored for it), the maps are cleared; the
\* sockets keep their handlers and no timer is cleared
StopMonitoring ==
  /\ isMonitoring' = FALSE
  /\ ws' = [b \in MonChains |->
              IF ws[b] = <<>> THEN ws[b]
              ELSE [ws[b] EXCEPT ![Len(ws[b])] = wsClose(@)]]
  /\ UNCHANGED <<reconnectAttempts, timers, sched>>
  /\ UNCHANGED syncVars
  /\ UNCHANGED apiVars

----------------------------------------------------------------------------
(* The WebSocket message handler and the listeners of its events *)

ZeroAddress == "0x0"

\* topics[0] of the logs the subscription delivers
Topics == {"Transfer", "NewAirdrop", "ClaimOpened"}

\* what arrives on a socket: bytes that are not JSON, a newHeads
\* notification, or a log notification
Messages ==
  {[kind |-> "garbage", topic |-> NONE, from |-> NONE, address |-> NONE],
   [kind |-> "block", topic |-> NONE, from |-> NONE, address |-> NONE]}
  \cup
  {[kind |-> "log", topic |-> tp, from |-> f, address |-> "0xa"] :
     tp \in Topics, f \in {ZeroAddress, "0xs"}}

\* what the node answers while one log is processed: getTransaction (the
\* transaction, null, or a rejection), and getLogs over the last 100 blocks
\* (a rejection, or the Transfer logs of the token: their number and the
\* number of distinct senders)
Rpcs ==
  [tx : {"found", "null", "throws"},
   logsOk : BOOLEAN,
   count : {PatternMinLogs, PatternMinLogs + 1},
   senders : {PatternMaxSenders, PatternMaxSenders + 1}]

\* BlockchainMonitoringService.isLikelyAirdropPattern
isLikelyAirdropPattern(tokenAddress, blockchain, rpc) ==
  IF ~rpc.logsOk THEN FALSE
  ELSE IF rpc.count > PatternMinLogs THEN rpc.senders <= PatternMaxSenders
  ELSE FALSE

\* the AirdropEvent the handlers build
AirdropEvent(name, type, contractAddress, log, blockchain, possibleAirdrop) ==
  [name |-> name, type |-> type, contractAddress |-> contractAddress,
   tokenAddress |-> log.address, blockchain |-> blockchain,
   possibleAirdrop |-> possibleAirdrop]

\* BlockchainMonitoringService.handleTransferEvent: the events it emits
handleTransferEvent(blockchain, log, rpc) ==
  IF log.from = ZeroAddress \/ isLikelyAirdropPattern(log.address, blockchain, rpc)
  THEN << AirdropEvent("airdropDetected", "token_transfer", log.address, log,
                       blockchain, TRUE) >>
  ELSE <<>>

\* BlockchainMonitoringService.processEventLog: the events it emits; the
\* transaction of the log is fetched first (tx.to is the checksummed form of
\* the address) and the log is dropped when it is not returned
processEventLog(blockchain, log, rpc) ==
  IF rpc.tx /= "found" THEN <<>>
  ELSE CASE log.topic = "Transfer" -> handleTransferEvent(blockchain, log, rpc)
         [] log.topic = "NewAirdrop" ->
              << AirdropEvent("newAirdrop", "new_airdrop", "0xA", log,
                              blockchain, FALSE) >>
         [] log.topic = "ClaimOpened" ->
              << AirdropEvent("claimOpened", "claim_opened", log.address, log,
                              blockchain, FALSE) >>
         [] OTHER -> <<>>

\* BlockchainMonitoringService.handleWebSocketMessage: the events emitted
\* for one message; a parse error is caught and logged
handleWebSocketMessage(blockchain, msg, rpc) ==
  IF msg.kind = "log" THEN processEventLog(blockchain, msg, rpc) ELSE <<>>

\* variant: a store failure in a listener escapes as a rejection
emit_Propagates(st, leg, id, event, t, dbOk) ==
  LET unchanged == [store |-> st, legacy |-> leg, saved |-> FALSE]
      detected == processDetectedAirdrop(st, leg, id,
                    [contractAddress |-> event.contractAddress,
                     tokenAddress |-> event.tokenAddress,
                     blockchain |-> event.blockchain, timestamp |-> t], t)
      out == IF ~dbOk THEN unchanged
             ELSE IF event.name = "claimOpened"
             THEN [store |-> updateAirdropStatus(st, event.contractAddress,
                                                 "active", t),
                   legacy |-> leg, saved |-> FALSE]
             ELSE detected
  IN [store |-> out.store, legacy |-> out.legacy, saved |-> out.saved,
      failed |-> ~dbOk, threw |-> ~dbOk]

\* this.emit(name, event) with the listeners of setupEventListeners:
\* processDetectedAirdrop for newAirdrop and airdropDetected,
\* updateAirdropStatus for claimOpened; both catch whatever the store or the
\* probe throws (dbOk = FALSE: the store throws)
emit(st, leg, id, event, t, dbOk) ==
  LET unchanged == [store |-> st, legacy |-> leg, saved |-> FALSE]
      detected == processDetectedAirdrop(st, leg, id,
                    [contractAddress |-> event.contractAddress,
                     tokenAddress |-> event.tokenAddress,
                     blockchain |-> event.blockchain, timestamp |-> t], t)
      out == IF ~dbOk THEN unchanged
             ELSE IF event.name = "claimOpened"
             THEN [store |-> updateAirdropStatus(st, event.contractAddress,
                                                 "active", t),
                   legacy |-> leg, saved |-> FALSE]
             ELSE detected
  IN [store |-> out.store, legacy |-> out.legacy, saved |-> out.saved,
      failed |-> ~dbOk, threw |-> FALSE]

\* ws.on('message'): one message handled to the end of its listeners
WsMessage(b, i) ==
  /\ ws[b][i] = "open"
  /\ ~stream.crashed
  /\ Len(stream.log) < MaxMessages
  /\ \E msg \in Messages, rpc \in Rpcs, dbOk \in DbOutcomes :
       LET emitted == handleWebSocketMessage(b, msg, rpc)
           out == IF emitted = <<>>
                  THEN [store |-> store, legacy |-> legacy, saved |-> FALSE,
                        failed |-> FALSE, threw |-> FALSE]
                  ELSE emit(store, legacy, nextId, emitted[1], now, dbOk)
       IN /\ out.saved => nextId <= MaxIds
          /\ store' = out.store
          /\ legacy' = out.legacy
          /\ nextId' = IF out.saved THEN nextId + 1 ELSE nextId
          /\ stream' = [crashed |-> out.threw,
                        log |-> Append(stream.log,
                                  IF emitted = <<>> THEN "none"
                                  ELSE IF out.failed THEN "failed"
                                  ELSE "handled")]
  /\ UNCHANGED <<now, chain, served, dbFaulty, isSyncing, pc, feed, result, snap>>
  /\ UNCHANGED monVars
  /\ UNCHANGED <<flight, userClaims, executed>>

----------------------------------------------------------------------------
(* Initial state *)

InitMon ==
  /\ ws = [b \in MonChains |-> <<>>]
  /\ reconnectAttempts = [b \in MonChains |-> 0]
  /\ timers = [b \in MonChains |-> <<>>]
  /\ isMonitoring = FALSE
  /\ sched = [b \in MonChains |-> [disconnects |-> 0, reconnects |-> 0]]

InitApi ==
  /\ flight = [h \in Slots |-> Idle]
  /\ userClaims = {}
  /\ executed = [k \in Wallets \X (1..MaxIds) |-> 0]
  /\ stream = [crashed |-> FALSE, log |-> <<>>]

InitSync ==
  /\ store = <<>>
  /\ legacy = {}
  /\ nextId = 1
  /\ isSyncing = FALSE
  /\ pc = [c \in Callers |-> IF c = "startup" THEN "boot" ELSE "idle"]
  /\ feed = [c \in Callers |-> <<>>]
  /\ result = [c \in Callers |-> EmptyResult]
  /\ snap = NoSnap

\* the environment of one specification: the pool of records the sources
\* serve, whether they keep serving one list, and the addresses that live
\* on chain (all others have no code)
InitEnv(pool, stable, addrs) ==
  /\ \E list \in (IF stable THEN RawFeeds(pool) ELSE {<<>>}) :
       served = [pool |-> pool, stable |-> stable, list |-> list, addrs |-> addrs,
                 down |-> {}, unreachable |-> {}]
  /\ chain \in {f \in [LowerAddrs -> ChainKinds] :
                  \A a \in LowerAddrs \ addrs : f[a] = NoCode}

SyncStep ==
  \/ TimerFires
  \/ RouteSync
  \/ StartupSync
  \/ \E c \in Callers : CallReturns(c)
  \/ \E c \in Callers : Fetch(c)
  \/ \E c \in Callers : Process(c)
  \/ \E c \in Callers : UpdateExisting(c)
  \/ \E c \in Callers : Cleanup(c)
  \/ \E c \in Callers : Finish(c)

(* Main specification: the batch sync against a changing clock and chain *)

Init ==
  /\ InitSync
  /\ now = 0
  /\ InitMon
  /\ InitApi
  /\ InitEnv(PoolMain, FALSE, {"0xa"})
  /\ dbFaulty = FALSE

Next ==
  \/ SyncStep
  \/ Tick
  \/ ChainChange

Spec == Init /\ [][Next]_vars

(* Identity resolution: candidates on two contract addresses *)

PoolIdent == {c \in GeckoCands : c.name = "Foo" \/ c.contractAddress = "0xa"}

InitIdent ==
  /\ InitSync
  /\ now = 0
  /\ InitMon
  /\ InitApi
  /\ InitEnv(PoolIdent, FALSE, {})
  /\ dbFaulty = FALSE

NextIdent ==
  \/ SyncStep

SpecIdent == InitIdent /\ [][NextIdent]_vars

(* Probe results against records of every verification level *)

PoolProbe == {c \in GeckoCands : c.name = "Foo" /\ c.contractAddress = "0xa"}

InitProbe ==
  /\ InitSync
  /\ now = 0
  /\ InitMon
  /\ InitApi
  /\ InitEnv(PoolProbe, FALSE, {"0xa"})
  /\ dbFaulty = FALSE

NextProbe ==
  \/ SyncStep
  \/ AirdropDetected
  \/ UpdateVerificationLevel
  \/ ChainChange

SpecProbe == InitProbe /\ [][NextProbe]_vars

(* claimOpened events between the steps of the batch sync *)

NextClaim ==
  \/ SyncStep
  \/ Tick
  \/ ClaimOpened

SpecClaim == Init /\ [][NextClaim]_vars

(* Sources that go down and come back between syncs *)

NextOutage ==
  \/ SyncStep
  \/ SourceOutage

SpecOutage == Init /\ [][NextOutage]_vars

(* Sync requests that arrive while a sync is in progress *)

NextRoute ==
  \/ SyncStep
  \/ RouteConflict
  \/ RouteAnswered

SpecRoute == Init /\ [][NextRoute]_vars

(* The probe against a changing chain, records created by events *)

NextChain ==
  \/ AirdropDetected
  \/ UpdateVerificationLevel
  \/ ChainChange
  \/ Tick

SpecChain == InitProbe /\ [][NextChain]_vars

(* Event handlers interleaved with each other and with the batch sync *)

NextRace ==
  \/ SyncStep
  \/ \E h \in Slots, a \in EventAddrs : EventFind(h, a)
  \/ \E h \in Slots : EventCreate(h)
  \/ \E h \in Slots : EventSave(h)

SpecRace == InitProbe /\ [][NextRace]_vars

(* View increments interleaved with each other and with the batch sync *)

NextViews ==
  \/ SyncStep
  \/ \E h \in Slots, id \in 1..MaxIds : ViewLoad(h, id)
  \/ \E h \in Slots : ViewSave(h)

SpecViews == InitProbe /\ [][NextViews]_vars

(* The per-record mutation entry points *)

NextMethods ==
  \/ AirdropDetected
  \/ IncrementViews
  \/ RecordClaim({"10"})
  \/ UpdateVerificationLevel
  \/ AddRiskWarning

SpecMethods == InitProbe /\ [][NextMethods]_vars

(* recordClaim calls with every amount *)

NextClaims ==
  \/ AirdropDetected
  \/ RecordClaim(Amounts)

SpecClaims == InitProbe /\ [][NextClaims]_vars

(* Records created by events, merged and swept by the batch sync *)

PoolSweep == {c \in AlertCands : c.endDate /= NONE}

InitSweep ==
  /\ InitSync
  /\ now = 0
  /\ InitMon
  /\ InitApi
  /\ InitEnv(PoolSweep, FALSE, {"0xa"})
  /\ dbFaulty = FALSE

NextSweep ==
  \/ SyncStep
  \/ AirdropDetected
  \/ Tick

SpecSweep == InitSweep /\ [][NextSweep]_vars

(* Claims through AirdropService: addAirdrop and claimAirdrop *)

\* documents handed to addAirdrop
LegacyInputs ==
  {[name |-> "Foo", tokenSymbol |-> s, contractAddress |-> a,
    totalSupply |-> "1", claimableAmount |-> "1", isActive |-> TRUE] :
     s \in {NONE, "FOO"}, a \in {"0xA", "0xB"}}

\* wallet addresses as callers write them
WalletInputs == {"0xw", "0xW"}

\* AirdropService.addAirdrop: new Airdrop(data).save() under the schema's
\* lowercase setter, required fields and unique contractAddress index
addAirdrop(leg, airdropData) ==
  LET doc == [name |-> airdropData.name,
              tokenSymbol |-> airdropData.tokenSymbol,
              contractAddress |-> toLowerCase(airdropData.contractAddress),
              totalSupply |-> airdropData.totalSupply,
              claimableAmount |-> airdropData.claimableAmount,
              isActive |-> airdropData.isActive,
              id |-> Cardinality(leg) + 1]
  IN IF /\ LegacyValidates(doc)
        /\ \A d \in leg : d.contractAddress /= doc.contractAddress
     THEN leg \cup {doc}
     ELSE leg

AddAirdrop ==
  /\ Cardinality(legacy) < MaxIds
  /\ \E airdropData \in LegacyInputs : legacy' = addAirdrop(legacy, airdropData)
  /\ UNCHANGED <<store, nextId, now, chain, served, dbFaulty, isSyncing, pc,
                 feed, result, snap>>
  /\ UNCHANGED monVars
  /\ UNCHANGED apiVars

\* Airdrop.findById
findById(leg, id) == {d \in leg : d.id = id}

\* UserClaim.findOne({walletAddress, airdropId, claimed: true})
existingClaim(claims, walletAddress, airdropId) ==
  {r \in claims : /\ r.walletAddress = toLowerCase(walletAddress)
                  /\ r.airdropId = airdropId
                  /\ r.claimed}

\* claimAirdrop up to its first await: Airdrop.findById; a missing airdrop
\* is answered 'Airdrop not found'
ClaimFindAirdrop(h, walletAddress, airdropId) ==
  /\ flight[h] = Idle
  /\ flight' = [flight EXCEPT ![h] =
       IF findById(legacy, airdropId) = {}
       THEN Idle
       ELSE [op |-> "claim-find", addr |-> walletAddress, id |-> airdropId,
             val |-> 0]]
  /\ UNCHANGED <<userClaims, executed, stream>>
  /\ UNCHANGED syncVars
  /\ UNCHANGED monVars

\* the claimed-row lookup: a row for the pair answers 'Airdrop already
\* claimed'
ClaimFindClaim(h) ==
  /\ flight[h].op = "claim-find"
  /\ flight' = [flight EXCEPT ![h] =
       IF existingClaim(userClaims, flight[h].addr, flight[h].id) /= {}
       THEN Idle
       ELSE [@ EXCEPT !.op = "claim-eligibility"]]
  /\ UNCHANGED <<userClaims, executed, stream>>
  /\ UNCHANGED syncVars
  /\ UNCHANGED monVars

\* blockchainService.checkAirdropEligibility: the contract answers or not;
\* a throw is caught by claimAirdrop
ClaimEligibility(h) ==
  /\ flight[h].op = "claim-eligibility"
  /\ \E eligible \in BOOLEAN :
       flight' = [flight EXCEPT ![h] =
         IF eligible THEN [@ EXCEPT !.op = "claim-execute"] ELSE Idle]
  /\ UNCHANGED <<userClaims, executed, stream>>
  /\ UNCHANGED syncVars
  /\ UNCHANGED monVars

\* blockchainService.executeClaimTransaction: a mined transaction carries a
\* hash; no claim function, no key or a revert gives no transaction
ClaimExecute(h) ==
  /\ flight[h].op = "claim-execute"
  /\ LET pair == <<toLowerCase(flight[h].addr), flight[h].id>>
     IN \E success \in BOOLEAN :
          IF success
          THEN /\ executed' = [executed EXCEPT ![pair] = @ + 1]
               /\ flight' = [flight EXCEPT ![h] =
                    [@ EXCEPT !.op = "claim-save", !.val = executed[pair] + 1]]
          ELSE /\ executed' = executed
               /\ flight' = [flight EXCEPT ![h] = Idle]
  /\ UNCHANGED <<userClaims, stream>>
  /\ UNCHANGED syncVars
  /\ UNCHANGED monVars

\* new UserClaim({...}).save(): the unique (walletAddress, airdropId) index
\* rejects a second row; claimAirdrop catches the error
ClaimSave(h) ==
  /\ flight[h].op = "claim-save"
  /\ LET userClaim == [walletAddress |-> toLowerCase(flight[h].addr),
                       airdropId |-> flight[h].id,
                       claimed |-> TRUE,
                       claimTxHash |-> flight[h].val]
     IN userClaims' =
          IF \E r \in userClaims : /\ r.walletAddress = userClaim.walletAddress
                                   /\ r.airdropId = userClaim.airdropId
          THEN userClaims
          ELSE userClaims \cup {userClaim}
  /\ flight' = [flight EXCEPT ![h] = Idle]
  /\ UNCHANGED <<executed, stream>>
  /\ UNCHANGED syncVars
  /\ UNCHANGED monVars

InitService ==
  /\ InitSync
  /\ now = 0
  /\ InitMon
  /\ InitApi
  /\ InitEnv({}, FALSE, {})
  /\ dbFaulty = FALSE

NextService ==
  \/ AddAirdrop
  \/ \E h \in Slots, w \in WalletInputs, id \in 1..MaxIds :
       ClaimFindAirdrop(h, w, id)
  \/ \E h \in Slots : ClaimFindClaim(h)
  \/ \E h \in Slots : ClaimEligibility(h)
  \/ \E h \in Slots : ClaimExecute(h)
  \/ \E h \in Slots : ClaimSave(h)

SpecService == InitService /\ [][NextService]_vars

(* Scraped candidates without contract address, next to API candidates *)

\* scrapeAirdropAlert over a page listing two airdrops
AlertPair ==
  { [name |-> n, symbol |-> extractSymbolFromName(n), contractAddress |-> "",
     tokenAddress |-> "", blockchain |-> "ethereum",
     description |-> "alert-desc", website |-> NONE, endDate |-> NONE,
     totalValue |-> NONE, status |-> "active", source |-> "airdrop-alert"]
    : n \in Names }

PoolAlert == AlertPair \cup {c \in GeckoCands : c.contractAddress = "0xa"}

InitAlert ==
  /\ InitSync
  /\ now = 0
  /\ InitMon
  /\ InitApi
  /\ InitEnv(PoolAlert, FALSE, {})
  /\ dbFaulty = FALSE

NextAlert ==
  \/ SyncStep

SpecAlert == InitAlert /\ [][NextAlert]_vars

(* Maintenance over a database that already holds a record *)

\* a schema-valid document found in the collection at start, active or
\* upcoming (the schema's default status)
StoredDocs ==
  {[NewVerifiedAirdrop(c, 0) EXCEPT !.status = st] :
     c \in {x \in GeckoCands : x.name = "Foo" /\ x.contractAddress = "0xa"},
     st \in {"active", "upcoming"}}

InitStored ==
  /\ store \in {<<doc>> : doc \in StoredDocs}
  /\ legacy = {}
  /\ nextId = 2
  /\ isSyncing = FALSE
  /\ pc = [c \in Callers |-> IF c = "startup" THEN "boot" ELSE "idle"]
  /\ feed = [c \in Callers |-> <<>>]
  /\ result = [c \in Callers |-> EmptyResult]
  /\ snap = NoSnap
  /\ now = 0
  /\ InitMon
  /\ InitApi
  /\ InitEnv({c \in GeckoCands : c.name = "Foo" /\ c.contractAddress = "0xa"},
             FALSE, {"0xa"})
  /\ dbFaulty = FALSE

NextStored ==
  \/ SyncStep
  \/ Tick
  \/ ChainChange

SpecStored == InitStored /\ [][NextStored]_vars

(* Maintenance while an RPC endpoint does not answer *)

\* two active documents found in the collection at start: one created by a
\* sync from a CoinGecko candidate on ethereum, one created by the
\* airdropDetected listener on polygon
OutageDocs ==
  << NewVerifiedAirdrop(
       CHOOSE c \in GeckoCands : c.name = "Foo" /\ c.contractAddress = "0xa", 0),
     NewVerifiedAirdrop(
       DetectedAirdropData([contractAddress |-> "0xb", tokenAddress |-> "0xb",
                            blockchain |-> "polygon", timestamp |-> 0],
                           [BaseContractInfo EXCEPT !.isValid = TRUE]), 0) >>

InitRpcDown ==
  /\ store = OutageDocs
  /\ legacy = {}
  /\ nextId = 3
  /\ isSyncing = FALSE
  /\ pc = [c \in Callers |-> IF c = "startup" THEN "boot" ELSE "idle"]
  /\ feed = [c \in Callers |-> <<>>]
  /\ result = [c \in Callers |-> EmptyResult]
  /\ snap = NoSnap
  /\ now = 0
  /\ InitMon
  /\ InitApi
  /\ InitEnv({c \in GeckoCands : c.name = "Foo" /\ c.contractAddress = "0xa"},
             FALSE, {"0xa", "0xb"})
  /\ dbFaulty = FALSE

NextRpcDown ==
  \/ SyncStep
  \/ RpcOutage

SpecRpcDown == InitRpcDown /\ [][NextRpcDown]_vars

(* Risk warnings *)

InitRisk ==
  /\ InitSync
  /\ now = 0
  /\ InitMon
  /\ InitApi
  /\ InitEnv(PoolProbe, FALSE, {"0xa"})
  /\ dbFaulty = FALSE

NextRisk ==
  \/ SyncStep
  \/ AirdropDetected
  \/ AddRiskWarning

SpecRisk == InitRisk /\ [][NextRisk]_vars

(* Re-running the sync against frozen sources and a frozen chain *)

InitIdem ==
  /\ InitSync
  /\ now = 0
  /\ InitMon
  /\ InitApi
  /\ InitEnv(Candidates, TRUE, LowerAddrs)
  /\ dbFaulty = FALSE

NextIdem ==
  \/ SyncStep
  \/ Tick

SpecIdem == InitIdem /\ [][NextIdem]_vars

(* Sync runs with a store that may throw, under fair scheduling *)

InitLive ==
  /\ InitSync
  /\ now = 0
  /\ InitMon
  /\ InitApi
  /\ InitEnv(PoolMain, FALSE, {"0xa"})
  /\ dbFaulty = TRUE

NextLive ==
  \/ SyncStep

\* every awaited call of a running sync returns or throws
FairLive ==
  \A c \in Callers :
    /\ WF_vars(Fetch(c))
    /\ WF_vars(Process(c))
    /\ WF_vars(UpdateExisting(c))
    /\ WF_vars(Cleanup(c))
    /\ WF_vars(Finish(c))

SpecLive == InitLive /\ [][NextLive]_vars /\ FairLive

(* WebSocket connections of the monitoring service *)

InitMonitor ==
  /\ InitSync
  /\ now = 0
  /\ InitMon
  /\ InitApi
  /\ InitEnv(PoolMain, FALSE, {})
  /\ dbFaulty = FALSE

NextMonitor ==
  \/ StartMonitoring
  \/ \E b \in MonChains : \E i \in 1..Len(ws[b]) : WsOpen(b, i)
  \/ \E b \in MonChains : \E i \in 1..Len(ws[b]) : WsError(b, i)
  \/ \E b \in MonChains : \E i \in 1..Len(ws[b]) : WsClose(b, i)
  \/ \E b \in MonChains : ReconnectTimerFires(b)

SpecMonitor == InitMonitor /\ [][NextMonitor]_vars

(* The monitoring service started and stopped *)

\* network events are followed on one blockchain; the other one's sockets
\* are created and closed by the service and stay silent
TeardownChains == {"ethereum"}

NextTeardown ==
  \/ StartMonitoring
  \/ StopMonitoring
  \/ \E b \in TeardownChains : \E i \in 1..Len(ws[b]) : WsOpen(b, i)
  \/ \E b \in TeardownChains : \E i \in 1..Len(ws[b]) : WsError(b, i)
  \/ \E b \in TeardownChains : \E i \in 1..Len(ws[b]) : WsClose(b, i)
  \/ \E b \in TeardownChains : ReconnectTimerFires(b)

SpecTeardown == InitMonitor /\ [][NextTeardown]_vars

(* Messages on the sockets of one blockchain, over a store that may throw *)

InitStream ==
  /\ InitSync
  /\ now = 0
  /\ InitMon
  /\ InitApi
  /\ InitEnv({}, FALSE, {"0xa"})
  /\ dbFaulty = TRUE

NextStream ==
  \/ StartMonitoring
  \/ \E b \in TeardownChains : \E i \in 1..Len(ws[b]) : WsOpen(b, i)
  \/ \E b \in TeardownChains : \E i \in 1..Len(ws[b]) : WsMessage(b, i)
  \/ \E b \in TeardownChains : \E i \in 1..Len(ws[b]) : WsClose(b, i)
  \/ \E b \in TeardownChains : ReconnectTimerFires(b)

SpecStream == InitStream /\ [][NextStream]_vars

----------------------------------------------------------------------------
(* Properties *)

\* C1: at most one execution of syncRealAirdrops is past its guard, and the
\* flag is set exactly while one is; a call rejected by the guard leaves the
\* flag set and touches neither the store nor the running sync's data
C1_SingleFlight ==
  /\ [](/\ Cardinality({c \in Callers : pc[c] \in InBody}) <= 1
        /\ isSyncing <=> (\E c \in Callers : pc[c] \in InBody))
  /\ [][\A c \in Callers :
          (pc[c] /= "threw" /\ pc'[c] = "threw")
             => /\ isSyncing /\ isSyncing'
                /\ store' = store /\ legacy' = legacy
                /\ feed' = feed /\ result' = result]_vars

\* a call has been rejected while another caller's sync is in its body
C1_Witness ==
  \E c \in Callers, d \in Callers : pc[c] = "threw" /\ pc[d] \in InBody

\* C2: every sync that passed the guard eventually leaves its body with
\* isSyncing false, whether its steps succeed or throw, and isSyncing is
\* only ever cleared by the caller that has finished fetch, per-candidate
\* processing, the maintenance pass and the cleanup
C2_RunsToCompletion ==
  /\ \A c \in Callers : (pc[c] \in InBody) ~> (pc[c] \notin InBody /\ ~isSyncing)
  /\ [][(isSyncing /\ ~isSyncing')
          => \E c \in Callers : /\ pc[c] = "finally"
                                /\ feed[c] = <<>>
                                /\ pc'[c] \notin InBody]_vars

\* a sync whose steps threw has reached its finally block
C2_Witness ==
  \E c \in Callers : pc[c] = "finally" /\ Len(result[c].errors) >= 2

\* C3: when a sync ends that delivered, like the sync before it, a candidate
\* with a non-empty contractAddress, exactly one record holds that
\* contractAddress and blockchain
C3_ExactlyOnePerKey ==
  \A c \in Callers :
    (pc[c] = "finally" /\ snap.valid)
      => \A cand \in Range(fetchRealAirdrops(served.list)) :
           Truthy(cand.contractAddress)
             => Cardinality({id \in DOMAIN store :
                   /\ store[id].contractAddress = toLowerCase(cand.contractAddress)
                   /\ store[id].blockchain = cand.blockchain}) = 1

\* C4: when a sync ends that got the same candidates and the same probe
\* results as the sync before it, the records are those the previous sync
\* left, with the same sources, status, verificationLevel, contractInfo and
\* metadata
C4_SameAfterRerun ==
  \A c \in Callers :
    (pc[c] = "finally" /\ snap.valid)
      => /\ DOMAIN store = DOMAIN snap.store
         /\ \A id \in DOMAIN store :
              /\ store[id].sources = snap.store[id].sources
              /\ store[id].status = snap.store[id].status
              /\ store[id].verificationLevel = snap.store[id].verificationLevel
              /\ store[id].contractInfo = snap.store[id].contractInfo
              /\ store[id].metadata = snap.store[id].metadata

\* C4, as amended: when a sync ends that got the same candidates and the
\* same probe results as the sync before it, and none of the records the
\* previous sync left has since passed its endDate or claimDeadline, fallen
\* out of the liveness check's activity window or met the retention
\* filter, the records are those the previous sync left and differ from
\* them in metadata.lastVerified at most
C4_SameButLastVerified ==
  \A c \in Callers :
    (/\ pc[c] = "finally"
     /\ snap.valid
     /\ \A id \in DOMAIN snap.store :
          /\ ~Expired(snap.store[id], now)
          /\ ~Obsolete(snap.store[id], now)
          /\ (snap.store[id].status = "active" /\ snap.store[id].contractAddress /= "")
               => isAirdropActive(snap.store[id].contractAddress,
                                  snap.store[id].blockchain, now))
      => /\ DOMAIN store = DOMAIN snap.store
         /\ \A id \in DOMAIN store :
              [store[id] EXCEPT !.metadata.lastVerified = 0] =
              [snap.store[id] EXCEPT !.metadata.lastVerified = 0]

\* a later sync with the same candidates has ended after the clock moved:
\* a record carries a new lastVerified and no time limit has lapsed
C4_Witness ==
  \E c \in Callers :
    /\ pc[c] = "finally"
    /\ snap.valid
    /\ snap.now < now
    /\ DOMAIN store = DOMAIN snap.store
    /\ \E id \in DOMAIN store :
         /\ store[id].metadata.lastVerified /= snap.store[id].metadata.lastVerified
         /\ store[id].status = "active"
         /\ Len(store[id].sources) = 2

\* C5: outside updateVerificationLevel calls (which append to the history),
\* a record's verificationLevel changes only from unverified to community,
\* in the processing of a candidate whose probe reports verified and isValid;
\* a record at official or scam keeps its verificationLevel and risk level
C5_ProbeRatchet ==
  [][\A id \in DOMAIN store \cap DOMAIN store' :
       (store'[id].metadata.verificationHistory = store[id].metadata.verificationHistory)
         => /\ (store'[id].verificationLevel /= store[id].verificationLevel)
                 => /\ store[id].verificationLevel = "unverified"
                    /\ store'[id].verificationLevel = "community"
                    /\ \E c \in Callers :
                         /\ pc[c] = "process"
                         /\ feed'[c] = Tail(feed[c])
                         /\ verifyContract(Head(feed[c]).contractAddress,
                                           Head(feed[c]).blockchain).verified
                         /\ verifyContract(Head(feed[c]).contractAddress,
                                           Head(feed[c]).blockchain).isValid
            /\ (store[id].verificationLevel \in {"official", "scam"})
                 => /\ store'[id].verificationLevel = store[id].verificationLevel
                    /\ store'[id].risks.level = store[id].risks.level]_vars

\* a record created unverified by the event path was raised to community by
\* a verified probe, and a later probe reporting not verified left it there
C5_Witness ==
  \E id \in DOMAIN store :
    /\ store[id].sources[1].confidence = calculateSourceConfidence("monitoring")
    /\ store[id].verificationLevel = "community"
    /\ Len(store[id].metadata.verificationHistory) = 2
    /\ ~store[id].contractInfo.verified

\* C6: no step of the sync, nor the clock or the chain, takes a record out
\* of status ended
C6_EndedStaysEnded ==
  [][\A id \in DOMAIN store \cap DOMAIN store' :
       store[id].status = "ended" => store'[id].status = "ended"]_vars

\* a sync has merged an active candidate into a record that an earlier sync
\* had ended
C6_Witness ==
  \E c \in Callers :
    /\ pc[c] = "update"
    /\ result[c].updatedAirdrops >= 1
    /\ \E id \in DOMAIN store : store[id].status = "ended"

\* C7: no step shortens a record's sources or changes the url or the
\* confidence of an entry it already holds
C7_SourcesAppendOnly ==
  [][\A id \in DOMAIN store \cap DOMAIN store' :
       /\ Len(store'[id].sources) >= Len(store[id].sources)
       /\ \A i \in 1..Len(store[id].sources) :
            /\ store'[id].sources[i].url = store[id].sources[i].url
            /\ store'[id].sources[i].confidence = store[id].sources[i].confidence]_vars

\* a record holds the entry it was created with and one a merge appended
C7_Witness ==
  \E id \in DOMAIN store : Len(store[id].sources) = 2

\* C8: no record holds two sources entries with the same url; a step that
\* lengthens sources appends one entry whose url was not in the list; and
\* the merge of a candidate into a record leaves its sources as long as
\* they were when they hold the candidate's url and one entry longer when
\* they do not
C8_OneEntryPerUrl ==
  /\ [](\A id \in DOMAIN store :
          \A i \in 1..Len(store[id].sources), j \in 1..Len(store[id].sources) :
            store[id].sources[i].url = store[id].sources[j].url => i = j)
  /\ [][\A id \in DOMAIN store \cap DOMAIN store' :
          Len(store'[id].sources) > Len(store[id].sources)
            => /\ Len(store'[id].sources) = Len(store[id].sources) + 1
               /\ \A i \in 1..Len(store[id].sources) :
                    store[id].sources[i].url /=
                      store'[id].sources[Len(store'[id].sources)].url]_vars
  /\ [][\A c \in Callers :
          (/\ pc[c] = "process"
           /\ feed'[c] = Tail(feed[c])
           /\ result'[c].updatedAirdrops = result[c].updatedAirdrops + 1)
            => LET id == findOne(IdentityMatches(store, Head(feed[c])))
                   held == \E i \in 1..Len(store[id].sources) :
                             store[id].sources[i].url = SourceUrl(Head(feed[c]))
               IN Len(store'[id].sources) =
                    Len(store[id].sources) + (IF held THEN 0 ELSE 1)]_vars

\* a candidate was merged into a record that already held its url, and the
\* record still has one sources entry
C8_Witness ==
  \E c \in Callers :
    /\ pc[c] = "update"
    /\ result[c].updatedAirdrops >= 1
    /\ \E id \in DOMAIN store : Len(store[id].sources) = 1
    /\ \A id \in DOMAIN store : Len(store[id].sources) = 1

\* C9: a step that is an addRiskWarning call on a record leaves its
\* risks.level at high when it then holds 3 or more warnings, at medium
\* when it holds 2, and at the level it had when it holds fewer
C9_RiskLevelAfterWarning ==
  [][\A id \in DOMAIN store, warning \in Warnings, factor \in Factors :
       (/\ pc' = pc
        /\ nextId' = nextId
        /\ store' = [store EXCEPT ![id] = addRiskWarning(@, warning, factor, now)])
         => store'[id].risks.level =
              (IF Len(store'[id].risks.warnings) >= 3 THEN "high"
               ELSE IF Len(store'[id].risks.warnings) = 2 THEN "medium"
               ELSE store[id].risks.level)]_vars

\* a record has received its third warning and is at high
C9_Witness ==
  \E id \in DOMAIN store :
    Len(store[id].risks.warnings) = 3 /\ store[id].risks.level = "high"

\* C10: since the last successful open, a blockchain has had at most
\* maxReconnectAttempts reconnects scheduled, and exactly that many once it
\* has seen more disconnects than that
C10_ReconnectLimit ==
  \A b \in MonChains :
    /\ sched[b].reconnects <= maxReconnectAttempts
    /\ (sched[b].disconnects > maxReconnectAttempts
          => sched[b].reconnects = maxReconnectAttempts)

\* C11: a reconnect scheduled when a blockchain has seen k + 1 consecutive
\* disconnects with no successful open gets the delay
\* min(reconnectInterval * 2^k, 600000)
C11_BackoffDoubles ==
  [][\A b \in MonChains :
       Len(timers'[b]) > Len(timers[b])
         => timers'[b][Len(timers'[b])].delay =
              Min(reconnectInterval * Pow2(sched'[b].disconnects - 1),
                  MaxReconnectDelay)]_vars

\* C12: while the service is stopped no reconnect timer is pending, and
\* no step taken while it stays stopped creates a socket or sets a timer
C12_StoppedStaysQuiet ==
  /\ [](~isMonitoring => \A b \in MonChains : timers[b] = <<>>)
  /\ [][(~isMonitoring /\ ~isMonitoring')
          => \A b \in MonChains : /\ Len(ws'[b]) = Len(ws[b])
                                  /\ Len(timers'[b]) <= Len(timers[b])]_vars

\* C13: every blockchain has at most one live (connecting or open) socket
\* and at most one pending reconnect timer
C13_OneSocketOneTimer ==
  \A b \in MonChains :
    /\ Len(timers[b]) <= 1
    /\ Cardinality({i \in 1..Len(ws[b]) : ws[b][i] \in {"connecting", "open"}}) <= 1

\* C14: a newAirdrop / airdropDetected event for an address with no record
\* whose probe returns isValid = false is dropped: the handler leaves the
\* verified store and the legacy store as they are
DetectedEvent(a) ==
  [contractAddress |-> a, tokenAddress |-> a,
   blockchain |-> "ethereum", timestamp |-> now]

C14_InvalidProbeDropsEvent ==
  \A a \in EventAddrs :
    (/\ ByContract(store, a) = {}
     /\ ~verifyContract(a, "ethereum").isValid)
      => LET out == processDetectedAirdrop(store, legacy, nextId, DetectedEvent(a), now)
         IN /\ out.store = store
            /\ out.legacy = legacy
            /\ ~out.saved

\* an event (its address in mixed case) arrives for an address without
\* bytecode and without a record while a sync run is open; the handler
\* returns without saving
C14_Witness ==
  /\ isSyncing
  /\ ByContract(store, "0xA") = {}
  /\ ChainAt("ethereum", "0xA") = NoCode
  /\ ~processDetectedAirdrop(store, legacy, nextId, DetectedEvent("0xA"), now).saved

\* C15: a maintenance pass that runs leaves every record that was active or
\* upcoming with endDate or claimDeadline in the past at status ended, and
\* a maintenance pass at any later time leaves an ended record as it is
C15_ExpiryToEnded ==
  /\ [][\A c \in Callers :
          (pc[c] = "update" /\ pc'[c] = "cleanup" /\ result' = result)
            => \A id \in DOMAIN store :
                 Expired(store[id], now) => store'[id].status = "ended"]_vars
  /\ [](\A id \in DOMAIN store : \A t \in now..MaxTime :
          store[id].status = "ended"
            => updateExistingAirdrops(store, t)[id] = store[id])

\* a maintenance pass has just run over a record whose endDate is in the
\* past and whose contract is still alive: the record is ended
C15_Witness ==
  \E c \in Callers : \E id \in DOMAIN store :
    /\ pc[c] = "cleanup"
    /\ store[id].endDate /= NoDate
    /\ store[id].endDate < now
    /\ store[id].status = "ended"
    /\ isAirdropActive(store[id].contractAddress, store[id].blockchain, now)

\* C16: a claimOpened event for an address that has a record sets the
\* record's status to active whatever status it had and whatever its
\* endDate and claimDeadline are; for an address with no record it changes
\* nothing
C16_ClaimOpenedActivates ==
  \A a \in EventAddrs \cup {"0xb"} :
    LET id == findOne(ByContract(store, a))
    IN IF id = 0
       THEN updateAirdropStatus(store, a, "active", now) = store
       ELSE \A s \in StatusEnum :
              LET out == updateAirdropStatus([store EXCEPT ![id].status = s],
                                             a, "active", now)
              IN /\ DOMAIN out = DOMAIN store
                 /\ out[id].status = "active"

\* a claimOpened event has put a record back to active after its endDate:
\* no sync is running and the record was written at the current time
C16_Witness ==
  /\ \A c \in Callers : pc[c] \notin InBody
  /\ \E id \in DOMAIN store :
       /\ store[id].status = "active"
       /\ store[id].endDate /= NoDate
       /\ store[id].endDate < now
       /\ store[id].metadata.lastVerified = now

\* C17: a candidate whose processing fails is followed by the processing
\* of the candidates after it, the maintenance pass and the retention sweep
\* of the same sync: the failing step leaves the later candidates queued,
\* the sync reaches its end, and the end is only reached through the
\* maintenance pass and the sweep
C17_FailureIsolated ==
  /\ [][\A c \in Callers :
          (pc[c] = "process" /\ Len(result'[c].errors) > Len(result[c].errors))
            => /\ feed'[c] = Tail(feed[c])
               /\ pc'[c] = IF feed'[c] = <<>> THEN "update" ELSE "process"]_vars
  /\ [][\A c \in Callers :
          /\ (pc'[c] = "cleanup" /\ pc[c] /= "cleanup") => pc[c] = "update"
          /\ (pc'[c] = "finally" /\ pc[c] /= "finally") => pc[c] = "cleanup"]_vars
  /\ \A c \in Callers :
       (pc[c] = "process" /\ result[c].errors /= <<>>) ~> (pc[c] = "finally")

\* the first candidate of a sync failed and the one after it was stored
C17_Witness ==
  \E c \in Callers :
    /\ pc[c] = "finally"
    /\ Len(result[c].errors) = 1
    /\ result[c].errors[1] \in Names
    /\ result[c].newAirdrops = 1
    /\ \A id \in DOMAIN store : store[id].name /= result[c].errors[1]

\* C18: a step of the candidate loop that neither creates nor merges its
\* candidate (its processing failed) adds an entry to the errors of the
\* sync's result
C18_FailureRecorded ==
  [][\A c \in Callers :
       (/\ pc[c] = "process"
        /\ feed'[c] /= feed[c]
        /\ result'[c].newAirdrops = result[c].newAirdrops
        /\ result'[c].updatedAirdrops = result[c].updatedAirdrops)
         => Len(result'[c].errors) > Len(result[c].errors)]_vars

\* C19: a sync during which an external source was down returns a
\* SyncResult whose errors record it
C19_OutageRecorded ==
  [][\A c \in Callers :
       (pc[c] = "finally" /\ pc'[c] \notin InBody /\ served.down /= {})
         => result[c].errors /= <<>>]_vars

\* C20: a request on POST /sync/real that arrives while a sync is in
\* progress is answered 409 and changes nothing of the running sync or of
\* the stores; the route's call of syncRealAirdrops never throws the
\* in-progress rejection (which would be answered 500); and the rejection
\* thrown to the interval callback ends in the callback's catch
C20_ConflictNotCrash ==
  /\ [](pc["route"] /= "threw")
  /\ [][(pc["route"] = "idle" /\ pc'["route"] /= "idle" /\ isSyncing)
          => /\ pc'["route"] = "conflict"
             /\ \A c \in Callers \ {"route"} : pc'[c] = pc[c]
             /\ UNCHANGED <<store, legacy, nextId, isSyncing, feed, result>>]_vars
  /\ [][pc["timer"] = "threw" => pc'["timer"] \in {"threw", "idle"}]_vars

\* the route has answered 409 while the sync of another caller is running
C20_Witness ==
  /\ pc["route"] = "conflict"
  /\ isSyncing
  /\ \E c \in Callers \ {"route"} : pc[c] \in InBody

\* C21: verifyContract returns a ContractInfo for every address and
\* blockchain and every set of failing node and explorer calls; a sub-check
\* whose call failed holds its default; without bytecode, with a malformed
\* address or an unconfigured blockchain the result is isValid, isToken and
\* verified all false; with no failing call it is the plain probe's result
ProbeInputs == {"0xa", "0xA", "0xb", "not-an-address", ""}

C21_ProbeDegrades ==
  \A address \in ProbeInputs : \A blockchain \in {"ethereum", "solana"} :
    \A failing \in SUBSET ProbeCalls :
      LET info == verifyContractWith(address, blockchain, failing)
      IN /\ info.isValid \in BOOLEAN /\ info.isToken \in BOOLEAN
         /\ info.verified \in BOOLEAN
         /\ "getCode" \in failing => ~info.isValid
         /\ "getsourcecode" \in failing => ~info.verified
         /\ "erc20" \in failing => ~info.isToken
         /\ "owner" \in failing => info.owner = NONE
         /\ "txlist" \in failing => info.lastActivity = NoDate
         /\ (\/ ~isValidAddress(address)
             \/ ~hasProvider(blockchain)
             \/ ~ChainAt(blockchain, address).hasCode)
              => ~info.isValid /\ ~info.isToken /\ ~info.verified
         /\ failing = {} => info = verifyContract(address, blockchain)

\* the probed address holds a verified token and the explorer is down:
\* the probe reports a valid, unverified token
C21_Witness ==
  LET info == verifyContractWith("0xA", "ethereum", {"getsourcecode", "txlist"})
  IN /\ chain["0xa"] = Verified
     /\ info.isValid /\ info.isToken /\ ~info.verified
     /\ info.lastActivity = NoDate
     /\ store /= <<>>

\* C22: at most one record holds a contractAddress, and a create attempt
\* of the event path that loses against a record inserted since its lookup
\* goes the update path: its data is merged into that record
C22_LoserMerges ==
  /\ [](\A a \in LowerAddrs : Cardinality(ByContract(store, a)) <= 1)
  /\ [][\A h \in Slots :
          LET event == FlightEvent(h)
              contractInfo == verifyContract(event.contractAddress, event.blockchain)
              id == findOne(ByContract(store, event.contractAddress))
          IN (/\ flight[h].op = "event-create"
              /\ flight'[h] = Idle
              /\ contractInfo.isValid
              /\ id /= 0)
               => store'[id] = updateExistingAirdrop(
                                  store[id],
                                  DetectedAirdropData(event, contractInfo), now)]_vars

\* C23: view increments issued concurrently are all counted: every
\* increment that completes raises the record's analytics.views by one,
\* and no other step changes the counter
C23_NoLostIncrement ==
  [][\A id \in DOMAIN store \cap DOMAIN store' :
       LET done == {h \in Slots : /\ flight[h].op = "view-save"
                                  /\ flight[h].id = id
                                  /\ flight'[h] = Idle}
       IN store'[id].analytics.views =
            store[id].analytics.views + Cardinality(done)]_vars

\* C24: no step shortens a record's verificationHistory, and every step
\* that changes a record's verificationLevel or status appends an entry
\* to it
C24_TransitionsAudited ==
  [][\A id \in DOMAIN store \cap DOMAIN store' :
       LET before == store[id].metadata.verificationHistory
           after == store'[id].metadata.verificationHistory
       IN /\ Len(after) >= Len(before)
          /\ (\/ store'[id].verificationLevel /= store[id].verificationLevel
              \/ store'[id].status /= store[id].status)
               => /\ Len(after) > Len(before)
                  /\ after[Len(after)].by /= NONE]_vars

\* C25: a call of incrementViews, recordClaim, updateVerificationLevel or
\* addRiskWarning on a record appends exactly one entry to the record's
\* verificationHistory
C25_OneAuditEntryPerCall ==
  \A id \in DOMAIN store :
    LET doc == store[id]
        grown(after) == Len(after.metadata.verificationHistory) =
                          Len(doc.metadata.verificationHistory) + 1
    IN /\ grown(incrementViews(doc, now))
       /\ \A w \in Wallets, amount \in Amounts, successful \in BOOLEAN :
            grown(recordClaim(doc, w, amount, successful, now))
       /\ \A newLevel \in LevelEnum :
            grown(updateVerificationLevel(doc, newLevel, "admin", now))
       /\ \A warning \in Warnings, factor \in Factors :
            grown(addRiskWarning(doc, warning, factor, now))

\* C28: topClaimers never holds more than 10 entries and is sorted by
\* parsed amount, largest first; successfulClaims never exceeds claims; no
\* step lowers views, claims or successfulClaims; and a successful claim
\* leaves in topClaimers the largest of the entries it held and the new
\* one (so the list holds the largest successful claims recorded so far)
AmountsOf(list) == [i \in 1..Len(list) |-> parseFloat(list[i].amount)]

Count(list, v) == Cardinality({i \in 1..Len(list) : list[i] = v})

C28_TopClaimers ==
  /\ [](\A id \in DOMAIN store :
          LET analytics == store[id].analytics
              top == AmountsOf(analytics.topClaimers)
          IN /\ Len(top) <= TopClaimersKept
             /\ \A i \in 1..(Len(top) - 1) : top[i] >= top[i + 1]
             /\ analytics.successfulClaims <= analytics.claims)
  /\ [][\A id \in DOMAIN store \cap DOMAIN store' :
          LET before == store[id].analytics
              after == store'[id].analytics
              old == AmountsOf(before.topClaimers)
              new == AmountsOf(after.topClaimers)
          IN /\ after.views >= before.views
             /\ after.claims >= before.claims
             /\ after.successfulClaims >= before.successfulClaims
             /\ (after.successfulClaims = before.successfulClaims)
                  => after.topClaimers = before.topClaimers
             /\ (after.successfulClaims > before.successfulClaims)
                  => \E amount \in Amounts :
                       LET all == Append(old, parseFloat(amount))
                       IN /\ Len(new) = Min(Len(all), TopClaimersKept)
                          /\ \A v \in Range(all) : Count(new, v) <= Count(all, v)
                          /\ \A v \in Range(all) :
                               Count(new, v) < Count(all, v)
                                 => \A i \in 1..Len(new) : new[i] >= v]_vars

\* eleven successful claims were recorded: the list holds ten entries, the
\* largest amount first, and the smallest amount has been pushed out
C28_Witness ==
  \E id \in DOMAIN store :
    LET analytics == store[id].analytics
    IN /\ analytics.successfulClaims = 11
       /\ Len(analytics.topClaimers) = TopClaimersKept
       /\ analytics.topClaimers[1].amount = "10"
       /\ analytics.topClaimers[TopClaimersKept].amount = "9"

\* C26: a step that inserts a VerifiedAirdrop record leaves, in the legacy
\* store, a record with the same contractAddress or the same name
C26_LegacyShadow ==
  [][\A id \in DOMAIN store' \ DOMAIN store :
       \E d \in legacy' : \/ d.contractAddress = store'[id].contractAddress
                          \/ d.name = store'[id].name]_vars

RowsOf(pair) ==
  {r \in userClaims : r.walletAddress = pair[1] /\ r.airdropId = pair[2]}

\* C29: under any interleaving of claimAirdrop calls for one (walletAddress,
\* airdropId) pair there is at most one UserClaim row for the pair, at most
\* one claim transaction is executed for it, and a call that looks the pair
\* up once a claimed row exists is answered without executing a transaction
C29_ClaimOnce ==
  /\ [](\A pair \in DOMAIN executed :
          /\ Cardinality(RowsOf(pair)) <= 1
          /\ executed[pair] <= 1)
  /\ [][\A h \in Slots :
          (/\ flight[h].op = "claim-find"
           /\ flight'[h] /= flight[h]
           /\ existingClaim(userClaims, flight[h].addr, flight[h].id) /= {})
          => (flight'[h] = Idle /\ executed' = executed)]_vars

\* C30: a candidate with a non-empty contractAddress is resolved only to a
\* record holding that contractAddress: processing it neither changes, nor
\* counts as an update of, a record that holds a different non-empty
\* contractAddress
C30_ContractIsIdentity ==
  [][\A c \in Callers :
       (/\ pc[c] = "process"
        /\ feed[c] /= <<>>
        /\ feed'[c] = Tail(feed[c])
        /\ Truthy(Head(feed[c]).contractAddress))
       => LET airdropData == Head(feed[c])
              Other(doc) ==
                /\ Truthy(doc.contractAddress)
                /\ doc.contractAddress /= toLowerCase(airdropData.contractAddress)
              existingAirdrop == findOne(IdentityMatches(store, airdropData))
          IN /\ \A id \in DOMAIN store \cap DOMAIN store' :
                  Other(store[id]) => store'[id] = store[id]
             /\ result'[c].updatedAirdrops > result[c].updatedAirdrops
                  => ~Other(store[existingAirdrop])]_vars

\* records holding the candidate's name and symbol
ByNameSymbol(st, airdropData) ==
  {id \in DOMAIN st : /\ st[id].name = airdropData.name
                      /\ st[id].symbol = airdropData.symbol}

\* C31: processing a candidate with empty contractAddress leaves a record of
\* its own (name, symbol), so two such candidates with different names yield
\* two distinct records, and it changes an existing record only when both
\* name and symbol match that record
C31_NameSymbolFallback ==
  [][\A c \in Callers :
       (/\ pc[c] = "process"
        /\ feed[c] /= <<>>
        /\ feed'[c] = Tail(feed[c])
        /\ ~Truthy(Head(feed[c]).contractAddress))
       => /\ ByNameSymbol(store', Head(feed[c])) /= {}
          /\ \A id \in DOMAIN store \cap DOMAIN store' :
               store'[id] /= store[id]
                 => id \in ByNameSymbol(store, Head(feed[c]))]_vars

\* C32: merging a candidate into the record it resolves to changes only
\* description, website, endDate and totalValue, each only to the candidate's
\* present, non-empty value, the sources list and metadata.lastVerified; the
\* identity fields, status, verificationLevel and risks stay as stored
C32_MergeFrame ==
  \A newData \in Candidates : \A id \in IdentityMatches(store, newData) :
    LET old == store[id]
        new == updateExistingAirdrop(old, newData, now)
    IN /\ new.name = old.name
       /\ new.symbol = old.symbol
       /\ new.contractAddress = old.contractAddress
       /\ new.tokenAddress = old.tokenAddress
       /\ new.blockchain = old.blockchain
       /\ new.status = old.status
       /\ new.verificationLevel = old.verificationLevel
       /\ new.risks = old.risks
       /\ new.contractInfo = old.contractInfo
       /\ new.analytics = old.analytics
       /\ new.description /= old.description
            => Truthy(newData.description) /\ new.description = newData.description
       /\ new.website /= old.website
            => Truthy(newData.website) /\ new.website = newData.website
       /\ new.endDate /= old.endDate
            => Truthy(newData.endDate) /\ new.endDate = ParseDate(newData.endDate)
       /\ new.totalValue /= old.totalValue
            => Truthy(newData.totalValue) /\ new.totalValue = newData.totalValue
       /\ \/ new.sources = old.sources
          \/ new.sources = Append(old.sources, newSource(newData))
       /\ new = [old EXCEPT !.description = new.description,
                            !.website = new.website,
                            !.endDate = new.endDate,
                            !.totalValue = new.totalValue,
                            !.sources = new.sources,
                            !.metadata.lastVerified = now]

\* a stored record with a website is merged with a candidate that has none
\* and another description
C32_Witness ==
  \E newData \in Candidates : \E id \in IdentityMatches(store, newData) :
    /\ ~Truthy(newData.website)
    /\ Truthy(store[id].website)
    /\ updateExistingAirdrop(store[id], newData, now).description
         /= store[id].description
    /\ updateExistingAirdrop(store[id], newData, now).website = store[id].website

\* the candidates createNewVerifiedAirdrop is handed: those of the sources and
\* the one synthesized for a monitoring event
CreationInputs ==
  Candidates \cup
  {DetectedAirdropData(DetectedEvent(a), verifyContract(a, "ethereum")) :
     a \in EventAddrs}

\* C33: a newly created record is community with risks.level low exactly when
\* its source is coingecko or known-defi, and unverified with risks.level
\* medium otherwise; it has no warnings, exactly one sources entry and exactly
\* one verificationHistory entry
C33_NewRecordTier ==
  \A airdropData \in CreationInputs :
    LET out == createNewVerifiedAirdrop(store, legacy, nextId, airdropData, now)
        trusted == airdropData.source \in {"coingecko", "known-defi"}
    IN out.saved =>
         LET doc == out.store[nextId]
         IN /\ trusted <=> (doc.verificationLevel = "community"
                            /\ doc.risks.level = "low")
            /\ ~trusted => (doc.verificationLevel = "unverified"
                            /\ doc.risks.level = "medium")
            /\ doc.risks.warnings = <<>>
            /\ Len(doc.sources) = 1
            /\ Len(doc.metadata.verificationHistory) = 1

C35_ActiveComposition ==
  \A address \in ProbeInputs : \A blockchain \in {"ethereum", "solana"} :
    LET contractInfo == verifyContract(address, blockchain)
        recent == contractInfo.lastActivity * MonthsPerUnit
                    > now * MonthsPerUnit - ActivityMonths
    IN /\ isAirdropActive(address, blockchain, now) \in BOOLEAN
       /\ isAirdropActive(address, blockchain, now)
            <=> /\ contractInfo.isValid
                /\ contractInfo.hasClaimFunction
                /\ (contractInfo.lastActivity = NoDate \/ recent)

\* a probed contract with code and no known activity counts as active
\* after the clock has advanced
C35_Witness ==
  /\ chain["0xa"] = Plain
  /\ isAirdropActive("0xA", "ethereum", now)
  /\ verifyContract("0xA", "ethereum").lastActivity = NoDate
  /\ now > 0
  /\ store /= <<>>

\* the functions the contract deployed at an address answers: the ERC-20
\* getters of a token, owner() of an owned contract; no contract of the model
\* implements a claim or claim-check function
ContractFunctions(blockchain, address) ==
  LET c == ChainAt(blockchain, address)
  IN (IF c.tokenName /= NONE /\ c.tokenSymbol /= NONE
      THEN {"name", "symbol"} ELSE {})
     \cup (IF c.owner /= NONE THEN {"owner"} ELSE {})

\* C36: for a valid contract that implements none of claim, claimTokens and
\* claimAirdrop the probe returns hasClaimFunction = false, and for one that
\* implements neither isClaimed nor canClaim it returns isAirdropContract =
\* false
C36_FlagsFollowContract ==
  \A address \in ProbeInputs : \A blockchain \in {"ethereum", "solana"} :
    LET contractInfo == verifyContract(address, blockchain)
        implemented == ContractFunctions(blockchain, address)
    IN contractInfo.isValid =>
         /\ implemented \cap {"claim", "claimTokens", "claimAirdrop"} = {}
              => ~contractInfo.hasClaimFunction
         /\ implemented \cap {"isClaimed", "canClaim"} = {}
              => ~contractInfo.isAirdropContract


\* the Transfer logs of the token in the last 100 blocks show the
\* mass-distribution pattern
MassDistribution(rpc) ==
  rpc.count > PatternMinLogs /\ rpc.senders <= PatternMaxSenders

\* C37: a Transfer log produces an airdropDetected event (type
\* token_transfer, possibleAirdrop = true) if and only if its from is the
\* zero address or the token shows the mass-distribution pattern; each
\* NewAirdrop log produces exactly one newAirdrop event and each ClaimOpened
\* log exactly one claimOpened event.
C37_LogClassification ==
  \A b \in DOMAIN ws, msg \in Messages, rpc \in Rpcs :
    msg.kind = "log" =>
      LET emitted == handleWebSocketMessage(b, msg, rpc)
      IN /\ msg.topic = "Transfer" =>
              ((\E k \in 1..Len(emitted) :
                  /\ emitted[k].name = "airdropDetected"
                  /\ emitted[k].type = "token_transfer"
                  /\ emitted[k].possibleAirdrop)
               <=> (msg.from = ZeroAddress \/ MassDistribution(rpc)))
         /\ msg.topic = "NewAirdrop" =>
              (Len(emitted) = 1 /\ emitted[1].name = "newAirdrop")
         /\ msg.topic = "ClaimOpened" =>
              (Len(emitted) = 1 /\ emitted[1].name = "claimOpened")

\* C38: a failure of a listener while it handles one emitted event never
\* reaches the stream reader: nothing escapes the message handler, handling
\* a message leaves the sockets, the reconnect timers and counters and the
\* monitoring flag as they were, and a socket that has handled a message
\* is still open.
C38_ConsumerFailureContained ==
  /\ [](~stream.crashed)
  /\ [][stream' /= stream =>
          /\ UNCHANGED <<ws, timers, reconnectAttempts, isMonitoring>>
          /\ \E b \in TeardownChains : \E i \in 1..Len(ws'[b]) :
               ws'[b][i] = "open"]_vars

\* a message whose listener failed on the store was followed by a message
\* that was handled and created a record, and the socket is still open
C38_Witness ==
  /\ stream.log = <<"failed", "handled">>
  /\ store /= <<>>
  /\ \E b \in TeardownChains : \E i \in 1..Len(ws[b]) : ws[b][i] = "open"
  /\ reconnectAttempts["ethereum"] = 0



\* C39: risks.level follows the warnings list: in every reachable state a
\* record with 3 or more warnings has risks.level high and a record with 2
\* warnings does not have risks.level low.
C39_LevelFollowsWarnings ==
  \A id \in DOMAIN store :
    /\ Len(store[id].risks.warnings) >= 3 => store[id].risks.level = "high"
    /\ Len(store[id].risks.warnings) = 2 => store[id].risks.level /= "low"



\* C40: a maintenance pass that runs while a blockchain's RPC endpoint does
\* not answer leaves every active record of that blockchain at its status
\* (unless its dates have expired), and still ends the active records of
\* the other blockchains whose contract is found inactive.
C40_OutageKeepsStatus ==
  [][\A c \in Callers :
       (pc[c] = "update" /\ pc'[c] = "cleanup" /\ result'[c] = result[c])
         => \A id \in DOMAIN store :
              (/\ store[id].status = "active"
               /\ store[id].contractAddress /= ""
               /\ ~Expired(store[id], now))
                => IF store[id].blockchain \in served.unreachable
                   THEN store'[id].status = "active"
                   ELSE (~isAirdropActive(store[id].contractAddress,
                                          store[id].blockchain, now)
                           => store'[id].status = "ended")]_vars


====
